---------------------------- MODULE Spec2Model ----------------------------
(***************************************************************************)
(* Verification model of the SScanSS-2 geometry core:                      *)
(*   sscanss/core/geometry/volume.py  (Curve, Volume)                      *)
(*   sscanss/core/mesh/geometry.py    (closest_triangle_to_point,          *)
(*                                     mesh_plane_intersection,            *)
(*                                     segment_plane_intersection)         *)
(*                                                                         *)
(* Real numbers are exact rationals <<n, d>> in lowest terms with d > 0,   *)
(* so that equality of values is equality of their representations.  The   *)
(* non-finite IEEE values the code can produce are the strings "NaN" and   *)
(* "Inf".  Rounding error of the floating point operations is not         *)
(* modelled.                                                               *)
(***************************************************************************)
EXTENDS Integers, Sequences, FiniteSets, TLC

VARIABLES
    curve,        \* the Curve object under construction / constructed
    curve_eval,   \* the last call of Curve.evaluate: its argument and result
    volume,       \* the Volume object: its fields
    vol_calls,    \* history: centre, then the matrices of the mutator calls made
    vol_args,     \* the max_bytes and max_dim the volume was constructed with
    bin_call,     \* the last direct call of Volume.bin: max_dim and the result
    closest,      \* a call of closest_triangle_to_point: faces, points, result
    section,      \* a call of mesh_plane_intersection: mesh, plane, segments
    seg_call,     \* a call of segment_plane_intersection: a, b, plane, result
    stack,        \* the ObjectStack widget: object_stack and the widgets laid out
    stack_call,   \* the last call made on the ObjectStack and what it did
    json,         \* a JsonValue node: its class, value and parent connections
    json_call,    \* the last call made on the JsonValue and the signals emitted
    olist,        \* an ObjectList: value (its objects) and current_index
    olist_call,   \* the last call made on the ObjectList, with the list before it
    sample,       \* model.sample: the ordered dictionary of samples
    sample_cmd,   \* the ChangeMainSample command on top of the undo stack
    fiducials,    \* model.fiducials: the array of fiducial points
    del_cmd,      \* the DeleteFiducials command on top of the undo stack
    move_cmd,     \* the MoveFiducials command on top of the undo stack
    forms         \* two FormControl widgets, "A" and "B"

vars == <<curve, curve_eval, volume, vol_calls, vol_args, bin_call, closest,
          section, seg_call, stack, stack_call, json, json_call, olist,
          olist_call, sample, sample_cmd, fiducials, del_cmd, move_cmd, forms>>

curveVars == <<curve, curve_eval>>
volumeVars == <<volume, vol_calls, vol_args, bin_call>>
meshVars == <<closest, section, seg_call>>
listVars == <<olist, olist_call>>
editorVars == <<stack, stack_call, json, json_call, listVars>>
sampleVars == <<sample, sample_cmd>>
fiducialVars == <<fiducials, del_cmd, move_cmd>>
uiVars == <<sampleVars, fiducialVars, forms>>

---------------------------------------------------------------------------
(* Exact rational arithmetic *)

Abs(n) == IF n < 0 THEN -n ELSE n

RECURSIVE Gcd(_, _)
Gcd(a, b) == IF b = 0 THEN a ELSE Gcd(b, a % b)

\* the rational n/d (d # 0) in lowest terms with a positive denominator
Rat(n, d) ==
    LET g == Gcd(Abs(n), Abs(d))
        s == IF d < 0 THEN -1 ELSE 1
    IN  <<(s * n) \div g, (s * d) \div g>>

RInt(n) == <<n, 1>>
RZero == <<0, 1>>
ROne == <<1, 1>>

RAdd(a, b) == Rat(a[1] * b[2] + b[1] * a[2], a[2] * b[2])
RSub(a, b) == Rat(a[1] * b[2] - b[1] * a[2], a[2] * b[2])
RMul(a, b) == Rat(a[1] * b[1], a[2] * b[2])
RDiv(a, b) == Rat(a[1] * b[2], a[2] * b[1])
RNeg(a) == <<-a[1], a[2]>>
RLt(a, b) == a[1] * b[2] < b[1] * a[2]
RLe(a, b) == a[1] * b[2] <= b[1] * a[2]
RMin(a, b) == IF RLe(a, b) THEN a ELSE b
RMax(a, b) == IF RLe(a, b) THEN b ELSE a
RSign(a) == IF a[1] > 0 THEN 1 ELSE IF a[1] < 0 THEN -1 ELSE 0

IsNaN(v) == v = "NaN"

\* numpy.clip(v, 0.0, 1.0); a NaN stays a NaN
Clip01(v) == IF IsNaN(v) THEN v ELSE RMax(RZero, RMin(ROne, v))

In01(v) == ~IsNaN(v) /\ RLe(RZero, v) /\ RLe(v, ROne)

Last(s) == s[Len(s)]

RECURSIVE SeqSum(_, _)
SeqSum(f, n) == IF n = 0 THEN RZero ELSE RAdd(SeqSum(f, n - 1), f[n])

RECURSIVE SeqProd(_, _)
SeqProd(f, n) == IF n = 0 THEN ROne ELSE RMul(SeqProd(f, n - 1), f[n])

---------------------------------------------------------------------------
(* Curve  (volume.py 14-66) *)

MaxX == 3          \* curve abscissas are the integers 0 .. MaxX
MaxPoints == 3     \* longest inputs / outputs sequence tried
NumSamples == 256  \* entries of the transfer function

\* candidate output values: -1/2, 1/2, 3/2
OutVals == {Rat(-1, 2), Rat(1, 2), Rat(3, 2)}

\* candidate bounds (the volume's intensity range, and a wider one)
CurveBounds == {<<0, 255>>, <<-255, 255>>}

CurveTypes == {"Cubic", "Linear"}

\* strictly increasing integer sequences over 0 .. MaxX of length 0 .. MaxPoints
IncSeqs ==
    {s \in UNION {[1..n -> 0..MaxX] : n \in 0..MaxPoints} :
        \A i \in 1..Len(s) - 1 : s[i] < s[i + 1]}

OutSeqs == UNION {[1..n -> OutVals] : n \in 0..MaxPoints}

\* scipy CubicSpline(inputs, outputs) with the default not-a-knot ends at x:
\* for 2, 3 and 4 points it is the polynomial through the points
\* (line, parabola, cubic), which also extrapolates outside the inputs.
CubicSpline(xs, ys, x) ==
    LET n == Len(xs)
        basis(i) ==
            SeqProd([j \in 1..n |->
                       IF j = i THEN ROne
                       ELSE RDiv(RSub(x, RInt(xs[j])), RInt(xs[i] - xs[j]))], n)
    IN  SeqSum([i \in 1..n |-> RMul(ys[i], basis(i))], n)

\* scipy interp1d(kind='linear', bounds_error=False): NaN outside the inputs
Interp1d(xs, ys, x) ==
    LET n == Len(xs)
    IN  IF RLt(x, RInt(xs[1])) \/ RLt(RInt(xs[n]), x) THEN "NaN"
        ELSE LET i == CHOOSE k \in 1..n - 1 :
                          RLe(RInt(xs[k]), x) /\ RLe(x, RInt(xs[k + 1]))
                 slope == RDiv(RSub(ys[i + 1], ys[i]), RInt(xs[i + 1] - xs[i]))
             IN  RAdd(ys[i], RMul(slope, RSub(x, RInt(xs[i]))))

\* self.f(x)
CurveF(c, x) ==
    IF c.f = "Cubic" THEN CubicSpline(c.inputs, c.outputs, x)
    ELSE Interp1d(c.inputs, c.outputs, x)

\* the value evaluate first computes for one x: clip of the fit, or of outputs[0]
Clipped(c, x) ==
    IF c.f = "None" THEN Clip01(c.outputs[1]) ELSE Clip01(CurveF(c, x))

\* evaluate without the two overwrites
NoExtrapolate(c, x, v) == v

\* the two overwrites at the end of evaluate, for one x
FlatExtrapolate(c, x, v) ==
    LET lo == IF RLt(x, RInt(c.inputs[1])) THEN c.outputs[1] ELSE v
    IN  IF RLt(RInt(Last(c.inputs)), x) THEN Last(c.outputs) ELSE lo

\* Curve.evaluate for one element of its argument
EvaluateOne(c, x) == FlatExtrapolate(c, x, Clipped(c, x))

\* Curve.evaluate(xs): one output per input, in order
Evaluate(c, xs) == [k \in 1..Len(xs) |-> EvaluateOne(c, xs[k])]

\* evaluate raises IndexError when it indexes an empty inputs or outputs
EvaluateRaises(c) == Len(c.inputs) = 0 \/ Len(c.outputs) = 0

\* numpy.linspace(b0, b1, num=NumSamples): sample k of 1 .. NumSamples
Linspace(b0, b1, k) ==
    RAdd(RInt(b0), Rat((k - 1) * (b1 - b0), NumSamples - 1))

\* the exception the constructor of the fit raises, or "ok"
\* (both scipy fits reject x and y of different lengths with ValueError)
FitError(inputs, outputs) ==
    IF Len(inputs) > 1 /\ Len(inputs) # Len(outputs) THEN "ValueError" ELSE "ok"

\* the fit Curve.__init__ stores in self.f
FitKind(inputs, curve_type) ==
    IF Len(inputs) > 1 THEN curve_type ELSE "None"

\* the flattened transfer function: NumSamples groups (ramp, ramp, ramp, alpha)
TransferFunction(c) ==
    [m \in 1..4 * NumSamples |->
        LET k == (m - 1) \div 4 + 1
        IN  IF (m - 1) % 4 = 3
            THEN EvaluateOne(c, Linspace(c.bounds[1], c.bounds[2], k))
            ELSE Rat(k - 1, NumSamples - 1)]

NoCurve == [status |-> "none"]

\* Curve.__init__(inputs, outputs, bounds, curve_type)
CurveObject(inputs, outputs, bounds, curve_type) ==
    LET c == [inputs |-> inputs, outputs |-> outputs, bounds |-> bounds,
              type |-> curve_type, f |-> FitKind(inputs, curve_type)]
    IN  IF FitError(inputs, outputs) # "ok"
        THEN [status |-> FitError(inputs, outputs)]
        ELSE IF EvaluateRaises(c)
        THEN [status |-> "IndexError"]
        ELSE [status |-> "ok", inputs |-> inputs, outputs |-> outputs,
              bounds |-> bounds, type |-> curve_type, f |-> c.f,
              transfer_function |-> TransferFunction(c)]

NoEval == [xs |-> <<>>, out |-> <<>>]

CurveCreate ==
    /\ curve.status = "none"
    /\ \E inputs \in IncSeqs, outputs \in OutSeqs, bounds \in CurveBounds,
          curve_type \in CurveTypes :
          curve' = CurveObject(inputs, outputs, bounds, curve_type)
    /\ UNCHANGED <<curve_eval, volumeVars, meshVars, editorVars, uiVars>>

\* the arguments evaluate is called with: one or two abscissas around the inputs
EvalArgs ==
    {<<RInt(x)>> : x \in -1..MaxX + 1} \cup {<<RInt(MaxX + 1), RInt(-1)>>}

CurveEvaluate ==
    /\ curve.status = "ok"
    /\ \E xs \in EvalArgs :
          curve_eval' = [xs |-> xs, out |-> Evaluate(curve, xs)]
    /\ UNCHANGED <<curve, volumeVars, meshVars, editorVars, uiVars>>

CurveIdle == curve = NoCurve /\ curve_eval = NoEval

---------------------------------------------------------------------------
(* Vectors and matrices of rationals *)

Vec3(x, y, z) == <<RInt(x), RInt(y), RInt(z)>>

\* a 4 x 4 (or 3 x 3) matrix from rows of integers over the denominator den
MatOver(rows, den) ==
    [i \in 1..Len(rows) |-> [j \in 1..Len(rows[i]) |-> Rat(rows[i][j], den)]]

\* Matrix44.identity()
Identity44 ==
    [i \in 1..4 |-> [j \in 1..4 |-> IF i = j THEN ROne ELSE RZero]]

\* Matrix44.fromTranslation(offset)
FromTranslation(offset) ==
    [i \in 1..4 |-> [j \in 1..4 |->
        IF i = j THEN ROne ELSE IF j = 4 THEN offset[i] ELSE RZero]]

\* a @ b for 4 x 4 matrices
MatMul(a, b) ==
    [i \in 1..4 |-> [j \in 1..4 |->
        SeqSum([k \in 1..4 |-> RMul(a[i][k], b[k][j])], 4)]]

\* BoundingBox(max_position, min_position)
BoundingBox(max_position, min_position) ==
    [max |-> max_position, min |-> min_position]

\* BoundingBox.transform(matrix): the axis-aligned box bounding the image of
\* the box under the matrix (rotation/scale block applied to the two extreme
\* corners per axis, then the translation column)
BoxTransform(box, matrix) ==
    LET lo(i, j) == RMin(RMul(matrix[i][j], box.min[j]),
                         RMul(matrix[i][j], box.max[j]))
        hi(i, j) == RMax(RMul(matrix[i][j], box.min[j]),
                         RMul(matrix[i][j], box.max[j]))
    IN  BoundingBox(
            [i \in 1..3 |-> RAdd(matrix[i][4], SeqSum([j \in 1..3 |-> hi(i, j)], 3))],
            [i \in 1..3 |-> RAdd(matrix[i][4], SeqSum([j \in 1..3 |-> lo(i, j)], 3))])

---------------------------------------------------------------------------
(* Volume  (volume.py 69-157) *)

MaxDim == 3    \* grid dimensions are 1 .. MaxDim voxels
MaxBin == 2    \* max_dim arguments are 1 .. MaxBin
MaxCalls == 2  \* mutator calls made on one volume

\* Python round(): the integer nearest to the rational n/d >= 0, a tie going
\* to the even neighbour
PyRound(v) ==
    LET q == v[1] \div v[2]
        r == v[1] % v[2]
    IN  IF 2 * r < v[2] THEN q
        ELSE IF 2 * r > v[2] THEN q + 1
        ELSE IF q % 2 = 0 THEN q ELSE q + 1

MaxOf(shape) ==
    CHOOSE m \in {shape[i] : i \in 1..3} : \A i \in 1..3 : shape[i] <= m

\* Volume.bin: scale = max_dim / max(shape)
BinScale(shape, max_dim) == Rat(max_dim, MaxOf(shape))

\* Volume.bin: new_shape
BinShape(shape, max_dim) ==
    [i \in 1..3 |-> PyRound(RMul(RInt(shape[i]), BinScale(shape, max_dim)))]

\* Volume.bin(max_dim): a new array of new_shape (its voxel values are not
\* modelled; an array is its identity and its shape)
Bin(data, max_dim) == [id |-> "binned", shape |-> BinShape(data.shape, max_dim)]

\* data.nbytes of an array of 8-bit samples
NBytes(data) == data.shape[1] * data.shape[2] * data.shape[3]

\* Volume.extent
Extent(v) == [i \in 1..3 |-> RMul(v.voxel_size[i], RInt(v.data.shape[i]))]

HalfExtent(v) == [i \in 1..3 |-> RDiv(Extent(v)[i], RInt(2))]

\* BoundingBox(self.extent / 2, -self.extent / 2)
LocalBox(v) ==
    BoundingBox(HalfExtent(v), [i \in 1..3 |-> RNeg(HalfExtent(v)[i])])

\* binning already at the limit
RenderTargetAtLimit(data, max_bytes, max_dim) ==
    IF NBytes(data) >= max_bytes THEN Bin(data, max_dim) ELSE data

\* Volume.__init__ line 93
RenderTarget(data, max_bytes, max_dim) ==
    IF NBytes(data) > max_bytes THEN Bin(data, max_dim) ELSE data

\* Volume.__init__ line 85: the counts of histogram1d(data, bins=256,
\* range=(0, 255)) and the 257 bin edges linspace(0, 255, 257); the counts are
\* a value determined by the array
Histogram(data) ==
    [counts |-> [of |-> data.id, bins |-> NumSamples, range |-> <<0, 255>>],
     edges |-> [first |-> 0, last |-> 255, num |-> NumSamples + 1]]

\* Volume.__init__ lines 86-88: the default curve through (edges[0], 0) and
\* (edges[-1], 1)
DefaultCurve(histogram) ==
    LET inputs == <<histogram.edges.first, histogram.edges.last>>
    IN  CurveObject(inputs, <<RZero, ROne>>, inputs, "Cubic")

\* Volume.__init__(data, voxel_size, centre, max_bytes, max_dim)
VolumeObject(data, voxel_size, centre, max_bytes, max_dim) ==
    LET v == [data |-> data, voxel_size |-> voxel_size]
        t == FromTranslation(centre)
    IN  [status |-> "ok", data |-> data, voxel_size |-> voxel_size,
         histogram |-> Histogram(data),
         curve |-> DefaultCurve(Histogram(data)),
         transform_matrix |-> t,
         bounding_box |-> BoxTransform(LocalBox(v), t),
         render_target |-> RenderTarget(data, max_bytes, max_dim)]

\* a transform composed on the right of the current one
ComposeRight(matrix, current) == MatMul(current, matrix)

\* Volume.transform line 151
ComposeTransform(matrix, current) == MatMul(matrix, current)

\* a transform that leaves the box where it was
KeepBox(box, matrix) == box

\* Volume.transform line 152
UpdateBox(box, matrix) == BoxTransform(box, matrix)

\* a transform that also goes back to rendering the full array
TransformedUnbinned(v, matrix) ==
    [v EXCEPT !.transform_matrix = ComposeTransform(matrix, v.transform_matrix),
              !.bounding_box = UpdateBox(v.bounding_box, matrix),
              !.render_target = v.data]

\* Volume.transform(matrix)
Transformed(v, matrix) ==
    [v EXCEPT !.transform_matrix = ComposeTransform(matrix, v.transform_matrix),
              !.bounding_box = UpdateBox(v.bounding_box, matrix)]

\* Volume.rotate: rot_matrix = identity with matrix[:3, :3] in its corner
RotMatrix(matrix) ==
    [i \in 1..4 |-> [j \in 1..4 |->
        IF i <= 3 /\ j <= 3 THEN matrix[i][j] ELSE Identity44[i][j]]]

NoVolume == [status |-> "none"]
NoBin == [max_dim |-> 0, result |-> [id |-> "none", shape |-> <<>>]]
NoArgs == [max_bytes |-> 0, max_dim |-> 0]

AllShapes == [1..3 -> 1..MaxDim]

\* the grids the placement operations are tried on
PlacedShapes == {<<1, 2, 3>>, <<2, 1, 1>>}
VoxelSizes == {<<ROne, ROne, ROne>>, <<Rat(1, 2), RInt(2), RInt(3)>>}
Centres == {Vec3(0, 0, 0), Vec3(1, -2, 3)}
ByteLimits == {4, 2000000000}

\* rotations (3 x 3, and one 4 x 4 whose last column rotate must ignore)
Rotations ==
    { MatOver(<<<<0, -1, 0>>, <<1, 0, 0>>, <<0, 0, 1>>>>, 1),
      MatOver(<<<<3, -4, 0>>, <<4, 3, 0>>, <<0, 0, 5>>>>, 5),
      MatOver(<<<<5, 0, 0, 35>>, <<0, 3, -4, 0>>, <<0, 4, 3, 0>>,
                <<0, 0, 0, 5>>>>, 5) }
Offsets == {Vec3(1, 0, 0), Vec3(0, -2, 5)}
\* general 4 x 4 matrices: a rotation followed by a translation, a scaling
Matrices ==
    { MatOver(<<<<0, 0, 1, 2>>, <<0, 1, 0, 0>>, <<-1, 0, 0, 1>>,
                <<0, 0, 0, 1>>>>, 1),
      MatOver(<<<<2, 0, 0, 0>>, <<0, 1, 0, 0>>, <<0, 0, 1, 0>>,
                <<0, 0, 0, 1>>>>, 1) }

VolumeCreate(shapes) ==
    /\ volume.status = "none"
    /\ \E shape \in shapes, voxel_size \in VoxelSizes, centre \in Centres,
          max_bytes \in ByteLimits, max_dim \in 1..MaxBin :
          /\ volume' = VolumeObject([id |-> "data", shape |-> shape],
                                    voxel_size, centre, max_bytes, max_dim)
          /\ vol_calls' = <<FromTranslation(centre)>>
          /\ vol_args' = [max_bytes |-> max_bytes, max_dim |-> max_dim]
    /\ UNCHANGED <<bin_call, curveVars, meshVars, editorVars, uiVars>>

CanMutate == volume.status = "ok" /\ Len(vol_calls) <= MaxCalls

\* Volume.rotate(matrix)
VolumeRotate ==
    /\ CanMutate
    /\ \E matrix \in Rotations :
          /\ volume' = Transformed(volume, RotMatrix(matrix))
          /\ vol_calls' = Append(vol_calls, RotMatrix(matrix))
    /\ UNCHANGED <<vol_args, bin_call, curveVars, meshVars, editorVars, uiVars>>

\* Volume.translate(offset)
VolumeTranslate ==
    /\ CanMutate
    /\ \E offset \in Offsets :
          /\ volume' = Transformed(volume, FromTranslation(offset))
          /\ vol_calls' = Append(vol_calls, FromTranslation(offset))
    /\ UNCHANGED <<vol_args, bin_call, curveVars, meshVars, editorVars, uiVars>>

\* Volume.transform(matrix)
VolumeTransform ==
    /\ CanMutate
    /\ \E matrix \in Matrices :
          /\ volume' = Transformed(volume, matrix)
          /\ vol_calls' = Append(vol_calls, matrix)
    /\ UNCHANGED <<vol_args, bin_call, curveVars, meshVars, editorVars, uiVars>>

\* Volume.bin(max_dim) called on the volume
VolumeBin ==
    /\ volume.status = "ok"
    /\ \E max_dim \in 1..MaxBin :
          bin_call' = [max_dim |-> max_dim, result |-> Bin(volume.data, max_dim)]
    /\ UNCHANGED <<volume, vol_calls, vol_args, curveVars, meshVars, editorVars, uiVars>>

VolumeIdle ==
    volume = NoVolume /\ vol_calls = <<>> /\ vol_args = NoArgs /\ bin_call = NoBin

---------------------------------------------------------------------------
(* Integer vectors (vertex and query coordinates are grid points) *)

Sub(u, v) == <<u[1] - v[1], u[2] - v[2], u[3] - v[3]>>
Dot(u, v) == u[1] * v[1] + u[2] * v[2] + u[3] * v[3]
Cross(u, v) ==
    <<u[2] * v[3] - u[3] * v[2], u[3] * v[1] - u[1] * v[3],
      u[1] * v[2] - u[2] * v[1]>>
Sign(n) == IF n > 0 THEN 1 ELSE IF n < 0 THEN -1 ELSE 0
RVec(v) == <<RInt(v[1]), RInt(v[2]), RInt(v[3])>>
RDot(u, v) ==
    RAdd(RMul(u[1], v[1]), RAdd(RMul(u[2], v[2]), RMul(u[3], v[3])))

---------------------------------------------------------------------------
(* closest_triangle_to_point  (geometry.py 6-71) *)

MaxFaces == 2   \* faces in one query

\* a face is <<v1, v2, v3>>; the per-face vectors of lines 19-28
V21(f) == Sub(f[2], f[1])
V32(f) == Sub(f[3], f[2])
V13(f) == Sub(f[1], f[3])
Nor(f) == Cross(V21(f), V13(f))
C13(f) == Cross(V13(f), Nor(f))
C32(f) == Cross(V32(f), Nor(f))
C21(f) == Cross(V21(f), Nor(f))

\* 1.0 / x (lines 29-32): numpy gives inf for x = 0
Reciprocal(x) == IF x = 0 THEN "Inf" ELSE Rat(1, x)

\* x * r for an integer x and r a reciprocal: 0 * inf is NaN
TimesReciprocal(x, r) ==
    IF r = "Inf" THEN (IF x = 0 THEN "NaN" ELSE IF x > 0 THEN "Inf" ELSE "-Inf")
    ELSE RMul(RInt(x), r)

\* numpy.clip(s, 0.0, 1.0) of a possibly non-finite s
ClipUnit(s) ==
    IF s = "NaN" THEN "NaN" ELSE IF s = "Inf" THEN ROne
    ELSE IF s = "-Inf" THEN RZero ELSE Clip01(s)

\* lines 41-43: the sum of the three signs
SignSum(f, point) ==
    Sign(Dot(C21(f), Sub(point, f[1]))) + Sign(Dot(C32(f), Sub(point, f[2])))
        + Sign(Dot(C13(f), Sub(point, f[3])))

\* a mask that always takes the edge distances
MaskAlways(f, point) == SignSum(f, point) < 4

\* line 45: mask = mask < 2.0
Mask(f, point) == SignSum(f, point) < 2

\* lines 47-60: squared distance from the point to the edge oo that starts at
\* the vertex the point offset ooo is taken from
EdgeDistance(oo, ooo) ==
    LET t == ClipUnit(TimesReciprocal(Dot(oo, ooo), Reciprocal(Dot(oo, oo))))
    IN  IF t = "NaN" THEN "NaN"
        ELSE LET temp == [i \in 1..3 |-> RSub(RMul(RInt(oo[i]), t), RInt(ooo[i]))]
             IN  RDot(temp, temp)

\* the plane term without the division by nor . nor
PlaneDistanceUnscaled(f, point) ==
    LET temp_4 == Dot(Nor(f), Sub(point, f[1]))
    IN  RInt(temp_4 * temp_4)

\* lines 63-64: squared distance from the point to the plane of the face
PlaneDistance(f, point) ==
    LET temp_4 == Dot(Nor(f), Sub(point, f[1]))
    IN  TimesReciprocal(temp_4 * temp_4, Reciprocal(Dot(Nor(f), Nor(f))))

\* numpy.minimum: a NaN operand gives NaN
NpMinimum(a, b) ==
    IF a = "NaN" \/ b = "NaN" THEN "NaN" ELSE RMin(a, b)

\* dist[i] for face f (lines 35-66)
Dist(f, point) ==
    IF Mask(f, point)
    THEN NpMinimum(EdgeDistance(V21(f), Sub(point, f[1])),
                   NpMinimum(EdgeDistance(V32(f), Sub(point, f[2])),
                             EdgeDistance(V13(f), Sub(point, f[3]))))
    ELSE PlaneDistance(f, point)

\* an argmin that keeps the last minimum it meets
ArgMinLast(dist) ==
    LET n == Len(dist)
        nans == {i \in 1..n : dist[i] = "NaN"}
        mins == {i \in 1..n : \A j \in 1..n : RLe(dist[i], dist[j])}
        last(S) == CHOOSE i \in S : \A j \in S : j <= i
    IN  IF nans # {} THEN last(nans) ELSE last(mins)

\* numpy argmin: the first NaN if there is one, else the first minimum
ArgMin(dist) ==
    LET n == Len(dist)
        nans == {i \in 1..n : dist[i] = "NaN"}
        mins == {i \in 1..n : \A j \in 1..n : RLe(dist[i], dist[j])}
        first(S) == CHOOSE i \in S : \A j \in S : i <= j
    IN  IF nans # {} THEN first(nans) ELSE first(mins)

\* line 68: dist.argmin()
ClosestIndex(dist) == ArgMin(dist)

\* closest_triangle_to_point(faces, points): one face per point, in order
ClosestTriangleToPoint(faces, points) ==
    [k \in 1..Len(points) |->
        faces[ClosestIndex([i \in 1..Len(faces) |-> Dist(faces[i], points[k])])]]

\* candidate faces: proper triangles of both windings, flat, tilted, obtuse
\* and shifted, then degenerate ones (repeated vertex, collinear vertices)
ProperFaces ==
    { <<<<0, 0, 0>>, <<4, 0, 0>>, <<0, 4, 0>>>>,
      <<<<0, 0, 0>>, <<0, 4, 0>>, <<4, 0, 0>>>>,
      <<<<0, 0, 0>>, <<4, 0, 0>>, <<0, 0, 4>>>>,
      <<<<4, 0, 0>>, <<0, 4, 0>>, <<0, 0, 4>>>>,
      <<<<0, 0, 0>>, <<2, 0, 0>>, <<6, 1, 0>>>>,
      <<<<0, 0, 2>>, <<0, 4, 2>>, <<4, 0, 2>>>> }
DegenerateFaces ==
    { <<<<0, 0, 0>>, <<0, 0, 0>>, <<4, 0, 0>>>>,
      <<<<0, 0, 0>>, <<4, 0, 0>>, <<4, 0, 0>>>>,
      <<<<0, 4, 0>>, <<4, 0, 0>>, <<0, 4, 0>>>>,
      <<<<0, 0, 0>>, <<2, 0, 0>>, <<4, 0, 0>>>>,
      <<<<1, 1, 1>>, <<1, 1, 1>>, <<1, 1, 1>>>> }
CandidateFaces == ProperFaces \cup DegenerateFaces

QueryPoints ==
    { <<1, 1, 0>>, <<1, 1, 1>>, <<5, 5, 0>>, <<-1, -1, 2>>, <<3, -1, 0>>,
      <<1, 2, 3>> }
QueryBatches ==
    {<<p>> : p \in QueryPoints} \cup {<<<<1, 1, 1>>, p>> : p \in QueryPoints}

ClosestQuery ==
    /\ closest.status = "pending"
    /\ closest' = [closest EXCEPT
                     !.status = "done",
                     !.dist = [k \in 1..Len(closest.points) |->
                                 [i \in 1..Len(closest.faces) |->
                                     Dist(closest.faces[i], closest.points[k])]],
                     !.result = ClosestTriangleToPoint(closest.faces, closest.points)]
    /\ UNCHANGED <<curveVars, volumeVars, section, seg_call, editorVars, uiVars>>

ClosestIdle == closest = [status |-> "none"]

ClosestStart ==
    \E n \in 1..MaxFaces : \E faces \in [1..n -> CandidateFaces] :
        \E points \in QueryBatches :
            closest = [status |-> "pending", faces |-> faces, points |-> points,
                       dist |-> <<>>, result |-> <<>>]

---------------------------------------------------------------------------
(* mesh_plane_intersection, segment_plane_intersection  (geometry.py 74-163) *)

\* Lengths are in grid units of eps / 3, so that the eps of line 3 (0.000001)
\* is 3 units and edges shorter than eps exist on the integer grid.
eps == 3

\* A plane is [point, normal, len]: the unit normal is normal / len.
Planes ==
    { [point |-> <<0, 0, z>>, normal |-> <<0, 0, 1>>, len |-> 1] : z \in {-1, 0, 1} }
    \cup { [point |-> <<x, 0, 0>>, normal |-> <<1, 0, 0>>, len |-> 1] : x \in {0, 2} }
    \cup { [point |-> <<0, 0, 0>>, normal |-> <<0, 3, 4>>, len |-> 5],
           [point |-> <<4, 4, -4>>, normal |-> <<4, 0, 3>>, len |-> 5] }

\* the distance measured from the origin instead of plane.point
SignedDistanceFromOrigin(v, plane) == Rat(Dot(v, plane.normal), plane.len)

\* np.dot(v - plane.point, plane.normal)
SignedDistance(v, plane) == Rat(Dot(Sub(v, plane.point), plane.normal), plane.len)

\* the numerator with the sign of the distance itself
PlaneNumeratorPos(point_a, plane) == SignedDistance(point_a, plane)

\* line 153: n = -np.dot(plane.normal, point_a - plane.point)
PlaneNumerator(point_a, plane) == RNeg(SignedDistance(point_a, plane))

\* line 154: d = np.dot(plane.normal, ab)
PlaneDenominator(point_a, point_b, plane) ==
    Rat(Dot(plane.normal, Sub(point_b, point_a)), plane.len)

\* a test that rejects only d = 0
ExactlyParallel(d) == d = RZero

\* line 155: -eps < d < eps
NearParallel(d) == RLt(RInt(-eps), d) /\ RLt(d, RInt(eps))

\* segment_plane_intersection(point_a, point_b, plane): "None" or the point q
SegmentPlaneIntersection(point_a, point_b, plane) ==
    LET ab == Sub(point_b, point_a)
        n == PlaneNumerator(point_a, plane)
        d == PlaneDenominator(point_a, point_b, plane)
    IN  IF NearParallel(d) THEN "None"
        ELSE LET t == RDiv(n, d)
             IN  IF RLe(RZero, t) /\ RLe(t, ROne)
                 THEN <<RAdd(RInt(point_a[1]), RMul(t, RInt(ab[1]))),
                        RAdd(RInt(point_a[2]), RMul(t, RInt(ab[2]))),
                        RAdd(RInt(point_a[3]), RMul(t, RInt(ab[3])))>>
                 ELSE "None"

\* line 123, as 1-based vertex positions
FaceIndicesSwapped == <<<<1, 2>>, <<1, 3>>, <<2, 3>>>>
FaceIndices == <<<<1, 2>>, <<2, 3>>, <<1, 3>>>>

RECURSIVE EdgeLoop(_, _, _, _, _)

\* the loop going on after a segment was emitted
NoBreak(points, face_indices, e, vertices, plane) ==
    EdgeLoop(points, face_indices, e + 1, vertices, plane)

\* line 135: break
AfterExtend(points, face_indices, e, vertices, plane) == <<>>

\* lines 125-135: the loop over face_indices from its e-th pair on, with the
\* points found so far; the result is what it appends to segments
EdgeLoop(points, face_indices, e, vertices, plane) ==
    IF e > Len(face_indices) THEN <<>>
    ELSE LET point == SegmentPlaneIntersection(vertices[face_indices[e][1]],
                                               vertices[face_indices[e][2]], plane)
             found == IF point # "None" THEN Append(points, point) ELSE points
         IN  IF Len(found) = 2
             THEN <<found[1], found[2]>>
                      \o AfterExtend(found, face_indices, e, vertices, plane)
             ELSE EdgeLoop(found, face_indices, e + 1, vertices, plane)

\* lines 94-96: the face is no candidate when all three distances are > 0 or
\* all three are < 0
SameSide(dist) ==
    \/ \A i \in 1..3 : dist[i][1] > 0
    \/ \A i \in 1..3 : dist[i][1] < 0

\* the positions of a pair in decreasing order
Descending(S) ==
    LET hi == CHOOSE i \in S : \A j \in S : j <= i
    IN  IF Cardinality(S) = 1 THEN <<hi>> ELSE <<hi, CHOOSE j \in S : j # hi>>

\* 1-based positions i < j of a pair, as a sequence in increasing order
Ascending(S) ==
    LET lo == CHOOSE i \in S : \A j \in S : i <= j
    IN  IF Cardinality(S) = 1 THEN <<lo>> ELSE <<lo, CHOOSE j \in S : j # lo>>

\* lines 101-135 for one candidate face: the points it appends to segments
FaceSegments(vertices, plane) ==
    LET dist == [i \in 1..3 |-> SignedDistance(vertices[i], plane)]
        nonzeros == {i \in 1..3 : dist[i][1] # 0}
        zeros == (1..3) \ nonzeros
    IN  IF SameSide(dist) THEN <<>>
        ELSE IF Cardinality(nonzeros) = 0 THEN <<>>
        ELSE IF Cardinality(nonzeros) = 1
        THEN <<RVec(vertices[Ascending(zeros)[1]]), RVec(vertices[Ascending(zeros)[2]])>>
        ELSE IF Cardinality(nonzeros) = 2
        THEN EdgeLoop(<<RVec(vertices[Ascending(zeros)[1]])>>,
                      <<Ascending(nonzeros)>>, 1, vertices, plane)
        ELSE EdgeLoop(<<>>, FaceIndices, 1, vertices, plane)

\* the calls of segment_plane_intersection the loop over face_indices makes
\* from its e-th pair on (lines 125-135)
RECURSIVE EdgeTests(_, _, _, _, _)
EdgeTests(points, face_indices, e, vertices, plane) ==
    IF e > Len(face_indices) THEN 0
    ELSE LET point == SegmentPlaneIntersection(vertices[face_indices[e][1]],
                                               vertices[face_indices[e][2]], plane)
             found == IF point # "None" THEN Append(points, point) ELSE points
         IN  IF Len(found) = 2 THEN 1
             ELSE 1 + EdgeTests(found, face_indices, e + 1, vertices, plane)

\* the calls of segment_plane_intersection made for one face (lines 94-135)
FaceTests(vertices, plane) ==
    LET dist == [i \in 1..3 |-> SignedDistance(vertices[i], plane)]
        nonzeros == {i \in 1..3 : dist[i][1] # 0}
        zeros == (1..3) \ nonzeros
    IN  IF SameSide(dist) \/ Cardinality(nonzeros) <= 1 THEN 0
        ELSE IF Cardinality(nonzeros) = 2
        THEN EdgeTests(<<RVec(vertices[Ascending(zeros)[1]])>>,
                       <<Ascending(nonzeros)>>, 1, vertices, plane)
        ELSE EdgeTests(<<>>, FaceIndices, 1, vertices, plane)

\* all_vertices[index : index + 3] of face k (1-based)
FaceVertices(mesh, k) ==
    [i \in 1..3 |-> mesh.vertices[mesh.indices[3 * (k - 1) + i]]]

NumFaces(mesh) == Len(mesh.indices) \div 3

\* mesh_plane_intersection(mesh, plane) over the faces 1 .. k: segments is
\* the returned list; owners records, per emitted pair, the face that emitted it
RECURSIVE MeshPlaneIntersection(_, _, _)
MeshPlaneIntersection(mesh, plane, k) ==
    IF k = 0 THEN [segments |-> <<>>, owners |-> <<>>]
    ELSE LET before == MeshPlaneIntersection(mesh, plane, k - 1)
             new == FaceSegments(FaceVertices(mesh, k), plane)
         IN  [segments |-> before.segments \o new,
              owners |-> before.owners \o [i \in 1..(Len(new) \div 2) |-> k]]

\* the vertex buffer of the meshes tried
MeshVertices == <<<<0, 0, 0>>, <<0, 4, 0>>, <<0, 8, 2>>, <<4, 4, -4>>>>

\* index buffers: n faces, each three distinct vertices in any order
IndexBuffers(n) ==
    {ix \in [1..3 * n -> 1..Len(MeshVertices)] :
        \A k \in 0..n - 1 : Cardinality({ix[3 * k + 1], ix[3 * k + 2], ix[3 * k + 3]}) = 3}

SectionQuery ==
    /\ section.status = "pending"
    /\ LET r == MeshPlaneIntersection(section.mesh, section.plane,
                                      NumFaces(section.mesh))
       IN  section' = [section EXCEPT !.status = "done",
                                      !.segments = r.segments,
                                      !.owners = r.owners,
                                      !.tests =
                                          [k \in 1..NumFaces(section.mesh) |->
                                              FaceTests(FaceVertices(section.mesh, k),
                                                        section.plane)]]
    /\ UNCHANGED <<curveVars, volumeVars, closest, seg_call, editorVars, uiVars>>

SectionIdle == section = [status |-> "none"]

SectionStart ==
    \E n \in 0..MaxFaces : \E ix \in IndexBuffers(n) : \E plane \in Planes :
        section = [status |-> "pending",
                   mesh |-> [vertices |-> MeshVertices, indices |-> ix],
                   plane |-> plane, segments |-> <<>>, owners |-> <<>>,
                   tests |-> <<>>]

MaxCoord == 2   \* segment end points have z in -MaxCoord .. MaxCoord

EndPoints == {<<x, 0, z>> : x \in {0, 1}, z \in -MaxCoord..MaxCoord}

SegmentQuery ==
    /\ seg_call.status = "pending"
    /\ seg_call' = [seg_call EXCEPT
                      !.status = "done",
                      !.result = SegmentPlaneIntersection(seg_call.a, seg_call.b,
                                                          seg_call.plane)]
    /\ UNCHANGED <<curveVars, volumeVars, closest, section, editorVars, uiVars>>

SegmentIdle == seg_call = [status |-> "none"]

SegmentStart ==
    \E a \in EndPoints, b \in EndPoints, plane \in Planes :
        seg_call = [status |-> "pending", a |-> a, b |-> b, plane |-> plane,
                    result |-> "None"]

MeshIdle == ClosestIdle /\ SectionIdle /\ SegmentIdle

---------------------------------------------------------------------------
(* ObjectStack  (editor/designer.py 8-73) *)

MaxStack == 3   \* entries the stack is grown to

\* the objects pushed (JsonObjectAttribute instances, compared by identity)
\* and the titles (str)
Objects == {"obj1", "obj2", "obj3"}
Titles == {"First"}

IsStr(x) == x \in Titles

\* ObjectStack.top(): the object of the last (title, object) pair
Top(object_stack) ==
    IF Len(object_stack) = 0 THEN "IndexError" ELSE object_stack[Len(object_stack)][2]

\* ObjectStack.createUi over the entries k .. Len: a ">" label before every
\* entry but the first, then a button showing the title and bound to
\* goDown(object).  QPushButton(title) raises TypeError for a title that is
\* not a str, which ends the loop with the widgets added so far.
RECURSIVE CreateUiFrom(_, _)
CreateUiFrom(object_stack, k) ==
    IF k > Len(object_stack) THEN <<>>
    ELSE LET label == IF k = 1 THEN <<>> ELSE <<[widget |-> "label", text |-> ">"]>>
             title == object_stack[k][1]
             object == object_stack[k][2]
         IN  IF ~IsStr(title) THEN label
             ELSE label \o <<[widget |-> "button", text |-> title, goDown |-> object]>>
                        \o CreateUiFrom(object_stack, k + 1)

\* ObjectStack.createUi(): clearLayout(), then one button per entry
CreateUi(object_stack) == CreateUiFrom(object_stack, 1)

\* createUi raised inside the slot
CreateUiRaises(object_stack) ==
    \E k \in 1..Len(object_stack) : ~IsStr(object_stack[k][1])

\* what becomes of the widget when stackChanged is emitted: the slot createUi
\* runs; an exception raised in a slot is not passed to the caller of emit, it
\* is either reported (an exception hook is installed) or ends the process
\* (PyQt5's default since 5.5)
AfterEmit(object_stack) ==
    IF CreateUiRaises(object_stack) THEN {"ok", "aborted"} ELSE {"ok"}

\* ObjectStack.__init__
NewStack == [status |-> "ok", object_stack |-> <<>>, layout |-> <<>>]
NoStack == [status |-> "none"]
NoStackCall == [op |-> "none"]

\* addObject line 54: the (object_title, new_object) pair appended, the
\* positional arguments bound in the order of the signature
Appended(args) == <<args[1], args[2]>>

\* the ways addObject is called: (title, object) as Designer and
\* ObjectAttribute call it, (object, title) and (object) as the test calls it
AddObjectCalls ==
    [style : {"designer"}, args : {<<t, o>> : t \in Titles, o \in Objects}]
    \cup [style : {"test"}, args : {<<o, t>> : o \in Objects, t \in Titles}]
    \cup [style : {"test"}, args : {<<o>> : o \in Objects}]

\* ObjectStack.addObject(object_title, new_object)
StackAddObject ==
    /\ stack.status = "ok"
    /\ Len(stack.object_stack) < MaxStack
    /\ \E call \in AddObjectCalls :
          IF Len(call.args) < 2
          THEN /\ stack' = stack
               /\ stack_call' = [op |-> "addObject", style |-> call.style,
                                 args |-> call.args, before |-> stack.object_stack,
                                 raised |-> "TypeError", emitted |-> 0]
          ELSE LET new == Append(stack.object_stack, Appended(call.args))
               IN  /\ \E status \in AfterEmit(new) :
                         stack' = [status |-> status, object_stack |-> new,
                                   layout |-> CreateUi(new)]
                   /\ stack_call' = [op |-> "addObject", style |-> call.style,
                                     args |-> call.args,
                                     before |-> stack.object_stack,
                                     raised |-> "no", emitted |-> 1]
    /\ UNCHANGED <<curveVars, volumeVars, meshVars, json, json_call, listVars, uiVars>>

\* the loop of goDown: pop while top() != selected_object; top() of an empty
\* stack raises IndexError
RECURSIVE PopUntil(_, _)
PopUntil(object_stack, selected_object) ==
    IF Len(object_stack) = 0 THEN [raised |-> "IndexError", object_stack |-> <<>>]
    ELSE IF Top(object_stack) = selected_object
    THEN [raised |-> "no", object_stack |-> object_stack]
    ELSE PopUntil(SubSeq(object_stack, 1, Len(object_stack) - 1), selected_object)

\* a goDown that also pops the selected entry
PopThrough(object_stack, selected_object) ==
    LET r == PopUntil(object_stack, selected_object)
    IN  IF r.raised = "no"
        THEN [r EXCEPT !.object_stack = SubSeq(@, 1, Len(@) - 1)]
        ELSE r

\* lines 62-63 of goDown
GoDownLoop(object_stack, selected_object) == PopUntil(object_stack, selected_object)

\* ObjectStack.goDown(selected_object)
StackGoDown ==
    /\ stack.status = "ok"
    /\ \E selected_object \in Objects \cup Titles :
          LET r == GoDownLoop(stack.object_stack, selected_object)
              call == [op |-> "goDown", style |-> "any", args |-> <<selected_object>>,
                       before |-> stack.object_stack]
          IN  IF r.raised # "no"
              THEN /\ stack' = [stack EXCEPT !.object_stack = r.object_stack]
                   /\ stack_call' = call @@ [raised |-> r.raised, emitted |-> 0]
              ELSE /\ \E status \in AfterEmit(r.object_stack) :
                         stack' = [status |-> status, object_stack |-> r.object_stack,
                                   layout |-> CreateUi(r.object_stack)]
                   /\ stack_call' = call @@ [raised |-> "no", emitted |-> 1]
    /\ UNCHANGED <<curveVars, volumeVars, meshVars, json, json_call, listVars, uiVars>>

StackIdle == stack = NoStack /\ stack_call = NoStackCall

StackStart == stack = NewStack /\ stack_call = NoStackCall

---------------------------------------------------------------------------
(* JsonValue  (editor/json_attributes.py 167-293) *)

MaxParents == 2   \* times connectParent is called on one value

\* the classes that use JsonValue.setValue and JsonValue.json_value as they are
JsonClasses == {"JsonValue", "StringValue", "FileValue", "FloatValue"}

\* default_value of the class (None, '', 0.0)
DefaultValue(class) ==
    CASE class = "JsonValue" -> "None"
      [] class = "StringValue" -> ""
      [] class = "FileValue" -> ""
      [] class = "FloatValue" -> "0.0"

\* values given to a node of the class; a float is written as its literal
ValuesOf(class) ==
    CASE class = "JsonValue" -> {"None", "x", "y"}
      [] class = "StringValue" -> {"", "New string", "Json string"}
      [] class = "FileValue" -> {"", "mesh.stl", "base.obj"}
      [] class = "FloatValue" -> {"0.0", "7.32", "-1.53"}

\* Python truth value of these values: None, '' and 0.0 are false
Truthy(v) == v \notin {"None", "", "0.0"}

\* JsonValue.__init__(initial_value)
NewJsonValue(class, initial_value) ==
    [status |-> "ok", class |-> class, parent |-> "False", connections |-> 0,
     value |-> IF Truthy(initial_value) THEN initial_value ELSE DefaultValue(class)]

NoJson == [status |-> "none"]
NoJsonCall == [op |-> "none"]

JsonCreate ==
    /\ json.status = "none"
    /\ \E class \in JsonClasses : \E initial_value \in ValuesOf(class) \cup {"None"} :
          json' = NewJsonValue(class, initial_value)
    /\ json_call' = NoJsonCall
    /\ UNCHANGED <<curveVars, volumeVars, meshVars, stack, stack_call, listVars, uiVars>>

\* JsonValue.connectParent(parent): one more connection of been_set to
\* parent.been_set.emit
JsonConnectParent ==
    /\ json.status = "ok"
    /\ json.connections < MaxParents
    /\ json' = [json EXCEPT !.connections = @ + 1, !.parent = "parent"]
    /\ json_call' = [op |-> "connectParent", arg |-> "parent",
                     before |-> json.value, been_set |-> <<>>,
                     parent_been_set |-> <<>>]
    /\ UNCHANGED <<curveVars, volumeVars, meshVars, stack, stack_call, listVars, uiVars>>

\* a setValue that says nothing
EmitNothing(new_value) == <<>>

\* setValue line 222: the emissions of been_set, with their argument
EmitBeenSet(new_value) == <<new_value>>

\* the emissions of the parent's been_set: each connection made by
\* connectParent passes every emission on
PassedOn(emissions, connections) ==
    [k \in 1..Len(emissions) * connections |-> emissions[(k - 1) \div connections + 1]]

\* JsonValue.setValue(new_value)
JsonSetValue ==
    /\ json.status = "ok"
    /\ \E new_value \in ValuesOf(json.class) :
          /\ json' = [json EXCEPT !.value = new_value]
          /\ json_call' = [op |-> "setValue", arg |-> new_value,
                           before |-> json.value,
                           been_set |-> EmitBeenSet(new_value),
                           parent_been_set |->
                               PassedOn(EmitBeenSet(new_value), json.connections)]
    /\ UNCHANGED <<curveVars, volumeVars, meshVars, stack, stack_call, listVars, uiVars>>

\* the json_value setter: json_value = value
JsonAssign ==
    /\ json.status = "ok"
    /\ \E value \in ValuesOf(json.class) :
          /\ json' = [json EXCEPT !.value = value]
          /\ json_call' = [op |-> "json_value", arg |-> value,
                           before |-> json.value, been_set |-> <<>>,
                           parent_been_set |-> <<>>]
    /\ UNCHANGED <<curveVars, volumeVars, meshVars, stack, stack_call, listVars, uiVars>>

JsonIdle == json = NoJson /\ json_call = NoJsonCall

---------------------------------------------------------------------------
(* ObjectList  (editor/json_attributes.py 602-748) *)

MaxList == 3   \* objects one list is grown to, and length of an assigned list

\* an object of the list is an identity and its data: the values of a
\* default copy ("default"), or data given to it
\* the identity of a newly created object: the first one not in the list
FreshId(value) ==
    CHOOSE i \in 0..Len(value) :
        /\ \A k \in 1..Len(value) : value[k].id # i
        /\ \A j \in 0..i - 1 : \E k \in 1..Len(value) : value[k].id = j

\* self.value[0].defaultCopy(): a new object of the same schema holding
\* default values
DefaultCopy(value) == [id |-> FreshId(value), data |-> "default"]

\* ObjectList.__init__(key, object_stack, initial_value)
NewObjectList(initial_value) ==
    [status |-> "ok", value |-> <<initial_value>>, current_index |-> 0]

NoList == [status |-> "none"]
NoListCall == [op |-> "none"]

\* the call record: the operation, its argument, the list and index before it
ListCall(op, arg) ==
    [op |-> op, arg |-> arg, before |-> olist.value,
     before_index |-> olist.current_index]

\* ObjectList.newObject on the fields (value, current_index)
NewObject(l) ==
    [l EXCEPT !.value = Append(l.value, DefaultCopy(l.value)),
              !.current_index = Len(l.value)]

\* list.pop(i) / list.insert(i, x) with 0-based i
Pop(value, i) == SubSeq(value, 1, i) \o SubSeq(value, i + 2, Len(value))
Insert(value, i, x) == SubSeq(value, 1, i) \o <<x>> \o SubSeq(value, i + 1, Len(value))

\* ObjectList.deleteObject
DeleteObject(l) ==
    IF Len(l.value) > 1
    THEN [l EXCEPT !.value = Pop(l.value, l.current_index),
                   !.current_index = IF l.current_index > 0 THEN @ - 1 ELSE @]
    ELSE l

\* a moveObject that leaves the selection where it was
MoveObjectKeepIndex(l) ==
    LET rest == Pop(l.value, l.current_index)
        to == IF l.current_index < Len(rest) THEN l.current_index + 1
              ELSE l.current_index
    IN  [l EXCEPT !.value = Insert(rest, to, l.value[l.current_index + 1])]

\* ObjectList.moveObject
MoveObject(l) ==
    LET rest == Pop(l.value, l.current_index)
        to == IF l.current_index < Len(rest) THEN l.current_index + 1
              ELSE l.current_index
    IN  [l EXCEPT !.value = Insert(rest, to, l.value[l.current_index + 1]),
                  !.current_index = to]

\* the loop of the json_value setter: newObject(), then the selected object
\* takes value[self.current_index]
RECURSIVE FillFrom(_, _)
FillFrom(l, value) ==
    IF Len(l.value) < Len(value)
    THEN LET n == NewObject(l)
         IN  FillFrom([n EXCEPT !.value[n.current_index + 1].data =
                                    value[n.current_index + 1]], value)
    ELSE l

\* the json_value setter of ObjectList
SetJsonValue(l, value) ==
    FillFrom([l EXCEPT !.value = <<l.value[1]>>, !.current_index = 0], value)

\* JsonObject.json_value of an object: self.value[key] is the JsonValue of
\* the attribute, which has no turned_on, so the getter raises for an object
\* that has attributes (every object of a list has its key attribute)
ObjectJsonValue(object) == "AttributeError"

\* the json_value getter of ObjectList: [obj.json_value for obj in self.value]
GetJsonValue(l) ==
    IF \E k \in 1..Len(l.value) : ObjectJsonValue(l.value[k]) = "AttributeError"
    THEN "AttributeError"
    ELSE [k \in 1..Len(l.value) |-> ObjectJsonValue(l.value[k])]

\* the data the user gives to an object
EditedData == {"A"}

\* the lists assigned to json_value
LoadedData == <<"L0", "L1", "L2", "L3", "L4", "L5">>
JsonLists ==
    {SubSeq(LoadedData, k, k + n - 1) : k \in 1..2, n \in 0..MaxList}

ListNewObject ==
    /\ olist.status = "ok"
    /\ Len(olist.value) < MaxList
    /\ olist' = NewObject(olist)
    /\ olist_call' = ListCall("newObject", "none")
    /\ UNCHANGED <<curveVars, volumeVars, meshVars, stack, stack_call, json, json_call, uiVars>>

ListDeleteObject ==
    /\ olist.status = "ok"
    /\ olist' = DeleteObject(olist)
    /\ olist_call' = ListCall("deleteObject", "none")
    /\ UNCHANGED <<curveVars, volumeVars, meshVars, stack, stack_call, json, json_call, uiVars>>

ListMoveObject ==
    /\ olist.status = "ok"
    /\ olist' = MoveObject(olist)
    /\ olist_call' = ListCall("moveObject", "none")
    /\ UNCHANGED <<curveVars, volumeVars, meshVars, stack, stack_call, json, json_call, uiVars>>

\* ObjectList.comboboxNewSelected(new_index), with an index of the list
ListComboboxNewSelected ==
    /\ olist.status = "ok"
    /\ \E new_index \in 0..Len(olist.value) - 1 :
          /\ olist' = [olist EXCEPT !.current_index = new_index]
          /\ olist_call' = ListCall("comboboxNewSelected", new_index)
    /\ UNCHANGED <<curveVars, volumeVars, meshVars, stack, stack_call, json, json_call, uiVars>>

\* json_value = value on the list
ListAssignJson ==
    /\ olist.status = "ok"
    /\ \E value \in JsonLists :
          /\ olist' = SetJsonValue(olist, value)
          /\ olist_call' = ListCall("json_value", value)
    /\ UNCHANGED <<curveVars, volumeVars, meshVars, stack, stack_call, json, json_call, uiVars>>

\* the user edits the selected object: selected.json_value = data
ListEditSelected ==
    /\ olist.status = "ok"
    /\ \E data \in EditedData :
          /\ olist' = [olist EXCEPT !.value[olist.current_index + 1].data = data]
          /\ olist_call' = ListCall("edit", data)
    /\ UNCHANGED <<curveVars, volumeVars, meshVars, stack, stack_call, json, json_call, uiVars>>

ListIdle == olist = NoList /\ olist_call = NoListCall

ListStart ==
    /\ \E data \in {"default"} \cup EditedData :
          olist = NewObjectList([id |-> 0, data |-> data])
    /\ olist_call = NoListCall

EditorIdle == StackIdle /\ JsonIdle /\ ListIdle

---------------------------------------------------------------------------
(* ChangeMainSample (sscanss/ui/commands/insert.py).  model.sample is an   *)
(* ordered dictionary: a sequence of entries [key, mesh] with distinct     *)
(* keys.  The undo stack calls redo when a command is pushed and, when the *)
(* command on top has the same id, mergeWith on the one on top.            *)

MaxSamples == 3
MaxMerges == 2

KeyNames == <<"a", "b", "c", "d", "e", "f">>
SampleKeys == {KeyNames[i] : i \in 1..MaxSamples}
MeshOf(key) == CHOOSE i \in 1..Len(KeyNames) : KeyNames[i] = key

Elements(list) == {list[i] : i \in 1..Len(list)}

\* the sample dictionaries: every order of every non-empty set of keys
Samples ==
    UNION {{[i \in 1..n |-> [key |-> ks[i], mesh |-> MeshOf(ks[i])]] :
              ks \in {f \in [1..n -> SampleKeys] :
                        \A i, j \in 1..n : f[i] = f[j] => i = j}} :
           n \in 1..MaxSamples}

\* list(sample.keys())
Keys(d) == [i \in 1..Len(d) |-> d[i].key]

\* sample[key]
Lookup(d, key) == d[CHOOSE i \in 1..Len(d) : d[i].key = key]

\* list(dict.fromkeys(list)): the first occurrence of each element, in order
RECURSIVE FromKeys(_)
FromKeys(list) ==
    IF list = <<>> THEN <<>>
    ELSE LET rest == FromKeys(SubSeq(list, 1, Len(list) - 1))
             last == list[Len(list)]
         IN  IF last \in Elements(rest) THEN rest ELSE Append(rest, last)

\* ChangeMainSample.__init__
NewChangeMainSample(sample_key, d) ==
    [key |-> sample_key,
     old_keys |-> Keys(d),
     new_keys |-> FromKeys(<<sample_key>> \o Keys(d))]

\* ChangeMainSample.reorderSample: the entries of the keys of new_keys that
\* are in the sample, in the order of new_keys
RECURSIVE ReorderSample(_, _)
ReorderSample(d, new_keys) ==
    IF new_keys = <<>> THEN <<>>
    ELSE LET key == Head(new_keys)
             rest == ReorderSample(d, Tail(new_keys))
         IN  IF key \in Elements(Keys(d)) THEN <<Lookup(d, key)>> \o rest
             ELSE rest

KeepNewKeys(self, command) == self.new_keys
\* ChangeMainSample.mergeWith: the new_keys the merged command ends up with
MergedNewKeys(self, command) == command.new_keys

NoSampleCmd ==
    [status |-> "none", key |-> "", old_keys |-> <<>>, new_keys |-> <<>>,
     created |-> <<>>, chosen |-> <<>>, last |-> "none"]

\* push of a new command when no command of this id is on top: __init__,
\* then redo
SamplePush ==
    /\ sample_cmd.status \in {"none", "undone"}
    /\ \E sample_key \in Elements(Keys(sample)) :
          LET cmd == NewChangeMainSample(sample_key, sample)
          IN  /\ sample' = ReorderSample(sample, cmd.new_keys)
              /\ sample_cmd' =
                    [status |-> "done", key |-> cmd.key,
                     old_keys |-> cmd.old_keys, new_keys |-> cmd.new_keys,
                     created |-> sample, chosen |-> <<sample_key>>,
                     last |-> "push"]
    /\ UNCHANGED <<curveVars, volumeVars, meshVars, editorVars, fiducialVars,
                   forms>>

\* push of a second command on top of a ChangeMainSample: __init__ and redo
\* of the new command, then mergeWith of the command on top
SampleMerge ==
    /\ sample_cmd.status = "done"
    /\ Len(sample_cmd.chosen) <= MaxMerges
    /\ \E sample_key \in Elements(Keys(sample)) :
          LET command == NewChangeMainSample(sample_key, sample)
          IN  /\ sample' = ReorderSample(sample, command.new_keys)
              /\ sample_cmd' =
                    [sample_cmd EXCEPT
                        !.new_keys = MergedNewKeys(sample_cmd, command),
                        !.chosen = Append(@, sample_key),
                        !.last = "merge"]
    /\ UNCHANGED <<curveVars, volumeVars, meshVars, editorVars, fiducialVars,
                   forms>>

\* ChangeMainSample.undo
SampleUndo ==
    /\ sample_cmd.status = "done"
    /\ sample' = ReorderSample(sample, sample_cmd.old_keys)
    /\ sample_cmd' = [sample_cmd EXCEPT !.status = "undone", !.last = "undo"]
    /\ UNCHANGED <<curveVars, volumeVars, meshVars, editorVars, fiducialVars,
                   forms>>

\* ChangeMainSample.redo
SampleRedo ==
    /\ sample_cmd.status = "undone"
    /\ sample' = ReorderSample(sample, sample_cmd.new_keys)
    /\ sample_cmd' = [sample_cmd EXCEPT !.status = "done", !.last = "redo"]
    /\ UNCHANGED <<curveVars, volumeVars, meshVars, editorVars, fiducialVars,
                   forms>>

SampleIdle == sample = <<>> /\ sample_cmd = NoSampleCmd

SampleStart == sample \in Samples /\ sample_cmd = NoSampleCmd

---------------------------------------------------------------------------
(* DeleteFiducials and MoveFiducials (sscanss/ui/commands/insert.py).      *)
(* model.fiducials is an array of points: a sequence.  The indices of the  *)
(* source count from 0, the positions of a sequence from 1.                *)

MaxFiducials == 4
MaxMoved == 3

\* an array of n distinct points
Points(n) == [i \in 1..n |-> i]

\* the index lists a selection can give: distinct valid indices, any order
IndexLists(n) ==
    UNION {{f \in [1..k -> 0..(n - 1)] : \A i, j \in 1..k : f[i] = f[j] => i = j} :
           k \in 1..n}

AsGiven(indices) == indices
\* sorted(indices), for distinct indices
SortedIndices(indices) ==
    CHOOSE s \in [1..Len(indices) -> Elements(indices)] :
        \A i, j \in 1..Len(indices) : i < j => s[i] < s[j]

\* array[indices] with a list of indices: a copy of the rows named
Take(array, indices) == [i \in 1..Len(indices) |-> array[indices[i] + 1]]

RECURSIVE NpDelete(_, _, _)
NpDelete(array, indices, position) ==
    IF position > Len(array) THEN <<>>
    ELSE IF (position - 1) \in Elements(indices)
         THEN NpDelete(array, indices, position + 1)
         ELSE <<array[position]>> \o NpDelete(array, indices, position + 1)

\* model.removePointsFromProject(indices): the array without the rows named
RemovePointsFromProject(array, indices) == NpDelete(array, indices, 1)

\* np.insert(array, value, row, 0), for 0 <= value <= len(array)
NpInsert(array, value, row) ==
    SubSeq(array, 1, value) \o <<row>> \o SubSeq(array, value + 1, Len(array))

\* DeleteFiducials.undo: the loop over enumerate(self.indices); inserts
\* records, for each row put back, the position used and the length of the
\* array at that moment.  np.insert raises IndexError beyond the end.
RECURSIVE UndoDeleteLoop(_, _, _, _, _)
UndoDeleteLoop(array, indices, old_values, index, inserts) ==
    IF index >= Len(indices)
    THEN [status |-> "ok", array |-> array, inserts |-> inserts]
    ELSE LET value == indices[index + 1]
             row == old_values[index + 1]
         IN  IF index < Len(array)
             THEN IF value > Len(array)
                  THEN [status |-> "IndexError", array |-> array,
                        inserts |-> Append(inserts, <<value, Len(array)>>)]
                  ELSE UndoDeleteLoop(NpInsert(array, value, row), indices,
                                      old_values, index + 1,
                                      Append(inserts, <<value, Len(array)>>))
             ELSE UndoDeleteLoop(Append(array, row), indices, old_values,
                                 index + 1,
                                 Append(inserts, <<Len(array), Len(array)>>))

NoDeleteCmd ==
    [status |-> "none", indices |-> <<>>, old_values |-> <<>>,
     before |-> <<>>, inserts |-> <<>>]

\* push of a DeleteFiducials command: __init__, then redo
DeletePush ==
    /\ del_cmd.status \in {"none", "done", "undone"}
    /\ \E selected \in IndexLists(Len(fiducials)) :
          LET indices == SortedIndices(selected)
          IN  /\ fiducials' = RemovePointsFromProject(fiducials, indices)
              /\ del_cmd' = [status |-> "done", indices |-> indices,
                             old_values |-> Take(fiducials, indices),
                             before |-> fiducials, inserts |-> <<>>]
    /\ UNCHANGED <<curveVars, volumeVars, meshVars, editorVars, sampleVars,
                   move_cmd, forms>>

\* DeleteFiducials.undo
DeleteUndo ==
    /\ del_cmd.status = "done"
    /\ LET r == UndoDeleteLoop(fiducials, del_cmd.indices, del_cmd.old_values,
                               0, <<>>)
       IN  /\ fiducials' = IF r.status = "ok" THEN r.array ELSE fiducials
           /\ del_cmd' = [del_cmd EXCEPT
                             !.status = IF r.status = "ok" THEN "undone"
                                        ELSE r.status,
                             !.inserts = r.inserts]
    /\ UNCHANGED <<curveVars, volumeVars, meshVars, editorVars, sampleVars,
                   move_cmd, forms>>

\* DeleteFiducials.redo of a command that was undone
DeleteRedo ==
    /\ del_cmd.status = "undone"
    /\ fiducials' = RemovePointsFromProject(fiducials, del_cmd.indices)
    /\ del_cmd' = [del_cmd EXCEPT
                      !.status = "done",
                      !.old_values = Take(fiducials, del_cmd.indices),
                      !.before = fiducials,
                      !.inserts = <<>>]
    /\ UNCHANGED <<curveVars, volumeVars, meshVars, editorVars, sampleVars,
                   move_cmd, forms>>

\* list(range(0, n))
RangeList(n) == [i \in 1..n |-> i - 1]

\* list[i], list[j] = list[j], list[i]
SwapAt(list, i, j) ==
    [list EXCEPT ![i + 1] = list[j + 1], ![j + 1] = list[i + 1]]

\* array[dst] = array[src] with lists of indices: the right side is copied
\* first, then row dst[i] receives the copy's row i
AssignIndexed(array, dst, src) ==
    LET copy == Take(array, src)
    IN  [p \in 1..Len(array) |->
            IF \E i \in 1..Len(dst) : dst[i] = p - 1
            THEN copy[CHOOSE i \in 1..Len(dst) :
                          /\ dst[i] = p - 1
                          /\ \A j \in 1..Len(dst) : dst[j] = p - 1 => j <= i]
            ELSE array[p]]

\* MoveFiducials.__init__
NewMoveFiducials(move_from, move_to, array) ==
    [move_from |-> move_from, move_to |-> move_to,
     old_order |-> RangeList(Len(array)),
     new_order |-> SwapAt(RangeList(Len(array)), move_from, move_to)]

\* MoveFiducials.redo and undo
RedoMove(array, cmd) == AssignIndexed(array, cmd.old_order, cmd.new_order)
UndoMove(array, cmd) == AssignIndexed(array, cmd.new_order, cmd.old_order)

CommandOrder(self, command) == command.new_order
\* MoveFiducials.mergeWith: the new_order the merged command ends up with
MergedOrder(self, command) ==
    SwapAt(self.new_order, command.move_from, command.move_to)

NoMoveCmd ==
    [status |-> "none", move_from |-> 0, move_to |-> 0, old_order |-> <<>>,
     new_order |-> <<>>, before |-> <<>>, moves |-> <<>>, last |-> "none"]

\* push of a new MoveFiducials command: __init__, then redo
MovePush ==
    /\ move_cmd.status \in {"none", "undone"}
    /\ \E move_from, move_to \in 0..(Len(fiducials) - 1) :
          LET cmd == NewMoveFiducials(move_from, move_to, fiducials)
          IN  /\ fiducials' = RedoMove(fiducials, cmd)
              /\ move_cmd' =
                    [status |-> "done", move_from |-> move_from,
                     move_to |-> move_to, old_order |-> cmd.old_order,
                     new_order |-> cmd.new_order, before |-> fiducials,
                     moves |-> <<<<move_from, move_to>>>>, last |-> "push"]
    /\ UNCHANGED <<curveVars, volumeVars, meshVars, editorVars, sampleVars,
                   del_cmd, forms>>

\* push of a further MoveFiducials on top of one: __init__ and redo of the
\* new command, then mergeWith of the command on top
MoveMerge ==
    /\ move_cmd.status = "done"
    /\ Len(move_cmd.moves) <= MaxMerges
    /\ \E move_from, move_to \in 0..(Len(fiducials) - 1) :
          LET command == NewMoveFiducials(move_from, move_to, fiducials)
          IN  /\ fiducials' = RedoMove(fiducials, command)
              /\ move_cmd' =
                    [move_cmd EXCEPT
                        !.new_order = MergedOrder(move_cmd, command),
                        !.moves = Append(@, <<move_from, move_to>>),
                        !.last = "merge"]
    /\ UNCHANGED <<curveVars, volumeVars, meshVars, editorVars, sampleVars,
                   del_cmd, forms>>

MoveUndo ==
    /\ move_cmd.status = "done"
    /\ fiducials' = UndoMove(fiducials, move_cmd)
    /\ move_cmd' = [move_cmd EXCEPT !.status = "undone", !.last = "undo"]
    /\ UNCHANGED <<curveVars, volumeVars, meshVars, editorVars, sampleVars,
                   del_cmd, forms>>

MoveRedo ==
    /\ move_cmd.status = "undone"
    /\ fiducials' = RedoMove(fiducials, move_cmd)
    /\ move_cmd' = [move_cmd EXCEPT !.status = "done", !.last = "redo"]
    /\ UNCHANGED <<curveVars, volumeVars, meshVars, editorVars, sampleVars,
                   del_cmd, forms>>

FiducialIdle ==
    fiducials = <<>> /\ del_cmd = NoDeleteCmd /\ move_cmd = NoMoveCmd

DeleteStart ==
    /\ \E n \in 1..MaxFiducials : fiducials = Points(n)
    /\ del_cmd = NoDeleteCmd /\ move_cmd = NoMoveCmd

MoveStart ==
    /\ \E n \in 1..MaxMoved : fiducials = Points(n)
    /\ del_cmd = NoDeleteCmd /\ move_cmd = NoMoveCmd

---------------------------------------------------------------------------
(* FormControl (sscanss/ui/widgets/forms.py): two controls, "A" and "B".   *)
(* A control holds the text of its line edit, its validation flags and     *)
(* valid; links is the set of controls its textChanged signal revalidates  *)
(* besides itself.                                                         *)

Controls == {"A", "B"}

\* the texts entered, in the order str compares their stripped forms
Texts == <<"", "1", "1 ", "2", "x">>

\* str.strip
Strip(text) == IF text = "1 " THEN "1" ELSE text

\* to_float: <<value, ok>>
ToFloat(string) ==
    IF string = "1" THEN <<1, TRUE>>
    ELSE IF string = "2" THEN <<2, TRUE>>
    ELSE <<0, FALSE>>

\* position of a stripped text in the order of str
StrRank(text) == CHOOSE i \in 1..Len(Texts) : Texts[i] = text

CompareOperators == {"Equal", "Not_Equal", "Greater", "Less"}

\* FormControl.__init__ up to the first validate
NewFormControl(required) ==
    [text |-> "", valid |-> FALSE, required |-> required, number |-> FALSE,
     minimum |-> <<>>, maximum |-> <<>>, compare_with |-> "",
     compare_op |-> "Equal", links |-> {}]

\* FormControl.rangeValid; <<>> is None; the exclusive flags keep their
\* default, False
RangeValid(self, input_text) ==
    IF ~self.number THEN TRUE
    ELSE LET f == ToFloat(input_text)
         IN  IF ~f[2] THEN FALSE
             ELSE IF self.maximum # <<>> /\ f[1] > self.maximum[1] THEN FALSE
             ELSE IF self.minimum # <<>> /\ f[1] < self.minimum[1] THEN FALSE
             ELSE TRUE

\* the comparisons at the end of FormControl.compareValid
Compared(op, value, value_2) ==
    IF op = "Equal" /\ value # value_2 THEN FALSE
    ELSE IF op = "Not_Equal" /\ value = value_2 THEN FALSE
    ELSE IF op = "Greater" /\ value <= value_2 THEN FALSE
    ELSE IF op = "Less" /\ value >= value_2 THEN FALSE
    ELSE TRUE

\* FormControl.compareValid
CompareValid(fs, self, input_text) ==
    IF self.compare_with = "" THEN TRUE
    ELSE LET input_text_2 == Strip(fs[self.compare_with].text)
         IN  IF self.number
             THEN LET f == ToFloat(input_text)
                      f_2 == ToFloat(input_text_2)
                  IN  IF ~f[2] \/ ~f_2[2] THEN FALSE
                      ELSE Compared(self.compare_op, f[1], f_2[1])
             ELSE Compared(self.compare_op, StrRank(input_text),
                           StrRank(input_text_2))

\* FormControl.validate: the value valid is left with
Validate(fs, c, input_text) ==
    LET text == Strip(input_text)
    IN  IF fs[c].required /\ text = "" THEN FALSE
        ELSE IF ~RangeValid(fs[c], text) THEN FALSE
        ELSE IF ~CompareValid(fs, fs[c], text) THEN FALSE
        ELSE TRUE

\* c.validate() on the text in the control
Validated(fs, c) == [fs EXCEPT ![c].valid = Validate(fs, c, fs[c].text)]

RECURSIVE ValidatedAll(_, _)
ValidatedAll(fs, cs) ==
    IF cs = {} THEN fs
    ELSE LET c == CHOOSE x \in cs : TRUE
         IN  ValidatedAll(Validated(fs, c), cs \ {c})

\* the slots of c's textChanged: c.validate, connected in __init__, then
\* the validate of every control c was given to compare with
TextChanged(fs, c) == ValidatedAll(Validated(fs, c), fs[c].links)

\* the user or the program changes the text of a control; the line edit
\* emits textChanged when the text differs
FormSetText ==
    /\ forms # <<>>
    /\ \E c \in Controls, i \in 1..Len(Texts) :
          /\ Texts[i] # forms[c].text
          /\ forms' = TextChanged([forms EXCEPT ![c].text = Texts[i]], c)
    /\ UNCHANGED <<curveVars, volumeVars, meshVars, editorVars, sampleVars,
                   fiducialVars>>

\* FormControl.compareWith
FormCompareWith ==
    /\ forms # <<>>
    /\ \E c \in Controls, form_control \in Controls, operation \in CompareOperators :
          /\ c # form_control
          /\ forms' = Validated([forms EXCEPT
                                    ![c].compare_op = operation,
                                    ![c].compare_with = form_control,
                                    ![c].links = @ \cup {form_control}], c)
    /\ UNCHANGED <<curveVars, volumeVars, meshVars, editorVars, sampleVars,
                   fiducialVars>>

\* the number setter
FormSetNumber ==
    /\ forms # <<>>
    /\ \E c \in Controls :
          forms' = Validated([forms EXCEPT ![c].number = TRUE], c)
    /\ UNCHANGED <<curveVars, volumeVars, meshVars, editorVars, sampleVars,
                   fiducialVars>>

\* the minimum setter
FormSetMinimum ==
    /\ forms # <<>>
    /\ \E c \in Controls, value \in {2} :
          forms' = Validated([forms EXCEPT ![c].minimum = <<value>>,
                                           ![c].number = TRUE], c)
    /\ UNCHANGED <<curveVars, volumeVars, meshVars, editorVars, sampleVars,
                   fiducialVars>>

\* the maximum setter
FormSetMaximum ==
    /\ forms # <<>>
    /\ \E c \in Controls, value \in {1} :
          forms' = Validated([forms EXCEPT ![c].maximum = <<value>>,
                                           ![c].number = TRUE], c)
    /\ UNCHANGED <<curveVars, volumeVars, meshVars, editorVars, sampleVars,
                   fiducialVars>>

FormIdle == forms = <<>>

\* two controls constructed with value '', required or not
FormStart ==
    \E required \in [Controls -> BOOLEAN] :
       forms = ValidatedAll([c \in Controls |-> NewFormControl(required[c])],
                            Controls)

UiIdle == SampleIdle /\ FiducialIdle /\ FormIdle

---------------------------------------------------------------------------
(* Specifications, one per component *)

InitCurve == UiIdle /\ CurveIdle /\ VolumeIdle /\ MeshIdle /\ EditorIdle

NextCurve == CurveCreate \/ CurveEvaluate

SpecCurve == InitCurve /\ [][NextCurve]_vars

\* placement of a volume: construction, then rotate / translate / transform
InitVolume == UiIdle /\ CurveIdle /\ VolumeIdle /\ MeshIdle /\ EditorIdle

NextVolume ==
    \/ VolumeCreate(PlacedShapes)
    \/ VolumeRotate
    \/ VolumeTranslate
    \/ VolumeTransform

SpecVolume == InitVolume /\ [][NextVolume]_vars

\* down-sampling: construction of a volume of any shape, then bin(max_dim)
InitBin == UiIdle /\ CurveIdle /\ VolumeIdle /\ MeshIdle /\ EditorIdle

NextBin ==
    \/ VolumeCreate(AllShapes)
    \/ VolumeBin

SpecBin == InitBin /\ [][NextBin]_vars

\* closest-triangle queries: any faces and points, then the call
InitClosest ==
    UiIdle /\ CurveIdle /\ VolumeIdle /\ ClosestStart /\ SectionIdle /\ SegmentIdle
    /\ EditorIdle

NextClosest == ClosestQuery

SpecClosest == InitClosest /\ [][NextClosest]_vars

\* cross-sections: any mesh and plane, then the call
InitSection ==
    UiIdle /\ CurveIdle /\ VolumeIdle /\ ClosestIdle /\ SectionStart /\ SegmentIdle
    /\ EditorIdle

NextSection == SectionQuery

SpecSection == InitSection /\ [][NextSection]_vars

\* segment / plane intersections: any end points and plane, then the call
InitSegment ==
    UiIdle /\ CurveIdle /\ VolumeIdle /\ ClosestIdle /\ SectionIdle /\ SegmentStart
    /\ EditorIdle

NextSegment == SegmentQuery

SpecSegment == InitSegment /\ [][NextSegment]_vars

\* the object stack: construction, then addObject / goDown calls
InitStack ==
    UiIdle /\ CurveIdle /\ VolumeIdle /\ MeshIdle /\ StackStart /\ JsonIdle /\ ListIdle

NextStack == StackAddObject \/ StackGoDown

SpecStack == InitStack /\ [][NextStack]_vars

\* a json value: construction, then connectParent / setValue / json_value =
InitJson == UiIdle /\ CurveIdle /\ VolumeIdle /\ MeshIdle /\ EditorIdle

NextJson == JsonCreate \/ JsonConnectParent \/ JsonSetValue \/ JsonAssign

SpecJson == InitJson /\ [][NextJson]_vars

\* an object list: construction, then the calls of its buttons, of its combo
\* box and of the loader
InitList == UiIdle /\ CurveIdle /\ VolumeIdle /\ MeshIdle /\ StackIdle /\ JsonIdle /\ ListStart

NextList ==
    \/ ListNewObject
    \/ ListDeleteObject
    \/ ListMoveObject
    \/ ListComboboxNewSelected
    \/ ListAssignJson
    \/ ListEditSelected

SpecList == InitList /\ [][NextList]_vars

\* the main sample: a dictionary of samples, then ChangeMainSample commands
\* pushed, merged, undone and redone
InitSample ==
    SampleStart /\ FiducialIdle /\ FormIdle /\ CurveIdle /\ VolumeIdle
    /\ MeshIdle /\ EditorIdle

NextSample == SamplePush \/ SampleMerge \/ SampleUndo \/ SampleRedo

SpecSample == InitSample /\ [][NextSample]_vars

\* deletion of fiducials: an array of points, then DeleteFiducials commands
InitDelete ==
    SampleIdle /\ DeleteStart /\ FormIdle /\ CurveIdle /\ VolumeIdle
    /\ MeshIdle /\ EditorIdle

NextDelete == DeletePush \/ DeleteUndo \/ DeleteRedo

SpecDelete == InitDelete /\ [][NextDelete]_vars

\* reordering of fiducials: an array of points, then MoveFiducials commands
InitMove ==
    SampleIdle /\ MoveStart /\ FormIdle /\ CurveIdle /\ VolumeIdle
    /\ MeshIdle /\ EditorIdle

NextMove == MovePush \/ MoveMerge \/ MoveUndo \/ MoveRedo

SpecMove == InitMove /\ [][NextMove]_vars

\* form controls: two controls, then configuration calls and text changes
InitForm ==
    SampleIdle /\ FiducialIdle /\ FormStart /\ CurveIdle /\ VolumeIdle
    /\ MeshIdle /\ EditorIdle

NextForm ==
    \/ FormSetText
    \/ FormCompareWith
    \/ FormSetNumber
    \/ FormSetMinimum
    \/ FormSetMaximum

SpecForm == InitForm /\ [][NextForm]_vars

---------------------------------------------------------------------------
(* Claims *)

\* C1: every value Curve.evaluate returns lies in [0, 1], for every curve
\* (any number of points, either fit, any output values) and every x,
\* x below inputs[0] and above inputs[-1] included; the alpha entries of the
\* transfer function are such values too.
EvaluateWithinUnitInterval ==
    /\ \A k \in 1..Len(curve_eval.out) : In01(curve_eval.out[k])
    /\ curve.status = "ok" =>
          \A k \in 1..NumSamples : In01(curve.transfer_function[4 * k])

\* C2: creating a Curve with len(inputs) # len(outputs) fails: no curve (and
\* no transfer function) is ever produced from sequences of different length.
MismatchedLengthsRejected ==
    curve.status = "ok" => Len(curve.inputs) = Len(curve.outputs)

\* C3: after construction and after any sequence of rotate / translate /
\* transform calls, bounding_box is the local box (corners +extent/2 and
\* -extent/2) passed once through the current transform_matrix.
BoxIsLocalBoxThroughTransform ==
    volume.status = "ok" =>
        volume.bounding_box = BoxTransform(LocalBox(volume), volume.transform_matrix)

\* Mn @ ... @ M1 @ T(c) for the history <<T(c), M1, ..., Mn>>
RECURSIVE LeftProduct(_, _)
LeftProduct(calls, n) ==
    IF n = 1 THEN calls[1] ELSE MatMul(calls[n], LeftProduct(calls, n - 1))

\* T(c) @ M1 @ ... @ Mn
RECURSIVE RightProduct(_, _)
RightProduct(calls, n) ==
    IF n = 1 THEN calls[1] ELSE MatMul(RightProduct(calls, n - 1), calls[n])

\* C4: after construction with centre c and mutator calls with the matrices
\* M1, ..., Mn in that order, transform_matrix = Mn @ ... @ M1 @ T(c).
TransformIsLeftProduct ==
    volume.status = "ok" =>
        volume.transform_matrix = LeftProduct(vol_calls, Len(vol_calls))

\* C4 witness: two mutators were applied whose order matters
TransformOrderMatters ==
    /\ volume.status = "ok"
    /\ Len(vol_calls) >= 3
    /\ volume.transform_matrix # RightProduct(vol_calls, Len(vol_calls))

\* C9: each dimension of the array Volume.bin returns is
\* shape[i] * max_dim / max(shape) rounded to the nearest integer, and >= 1.
BinDimsRoundedAndPositive ==
    bin_call.max_dim >= 1 =>
        \A i \in 1..3 :
            LET exact == Rat(volume.data.shape[i] * bin_call.max_dim,
                             MaxOf(volume.data.shape))
                got == RInt(bin_call.result.shape[i])
            IN  /\ RLe(RSub(got, exact), Rat(1, 2))
                /\ RLe(RSub(exact, got), Rat(1, 2))
                /\ bin_call.result.shape[i] >= 1

\* Reference: the point of triangle a b c closest to p, by its Voronoi regions
\* (vertex, edge and face regions in barycentric coordinates)
ClosestPointOnTriangle(p, a, b, c) ==
    LET ab == Sub(b, a)
        ac == Sub(c, a)
        bc == Sub(c, b)
        d1 == Dot(ab, Sub(p, a))
        d2 == Dot(ac, Sub(p, a))
        d3 == Dot(ab, Sub(p, b))
        d4 == Dot(ac, Sub(p, b))
        d5 == Dot(ab, Sub(p, c))
        d6 == Dot(ac, Sub(p, c))
        vc == d1 * d4 - d3 * d2
        vb == d5 * d2 - d1 * d6
        va == d3 * d6 - d5 * d4
        along(o, dir, t) == [i \in 1..3 |-> RAdd(RInt(o[i]), RMul(t, RInt(dir[i])))]
    IN  IF d1 <= 0 /\ d2 <= 0 THEN RVec(a)
        ELSE IF d3 >= 0 /\ d4 <= d3 THEN RVec(b)
        ELSE IF vc <= 0 /\ d1 >= 0 /\ d3 <= 0 THEN along(a, ab, Rat(d1, d1 - d3))
        ELSE IF d6 >= 0 /\ d5 <= d6 THEN RVec(c)
        ELSE IF vb <= 0 /\ d2 >= 0 /\ d6 <= 0 THEN along(a, ac, Rat(d2, d2 - d6))
        ELSE IF va <= 0 /\ d4 - d3 >= 0 /\ d5 - d6 >= 0
        THEN along(b, bc, Rat(d4 - d3, (d4 - d3) + (d5 - d6)))
        ELSE [i \in 1..3 |->
                 RAdd(RInt(a[i]),
                      RAdd(RMul(Rat(vb, va + vb + vc), RInt(ab[i])),
                           RMul(Rat(vc, va + vb + vc), RInt(ac[i]))))]

\* the squared Euclidean distance from p to the triangle f
TrueDistance(f, p) ==
    LET q == ClosestPointOnTriangle(p, f[1], f[2], f[3])
        diff == [i \in 1..3 |-> RSub(RInt(p[i]), q[i])]
    IN  RDot(diff, diff)

NonDegenerate(f) == Nor(f) # <<0, 0, 0>>

AllProper == \A i \in 1..Len(closest.faces) : NonDegenerate(closest.faces[i])

\* C5: for non-degenerate faces, closest_triangle_to_point returns one face
\* per query point, in query order, each an input face whose true Euclidean
\* distance to that point is minimal among all input faces.
ClosestFaceIsNearest ==
    (closest.status = "done" /\ AllProper) =>
        /\ Len(closest.result) = Len(closest.points)
        /\ \A k \in 1..Len(closest.points) :
              /\ \E i \in 1..Len(closest.faces) : closest.result[k] = closest.faces[i]
              /\ \A i \in 1..Len(closest.faces) :
                    RLe(TrueDistance(closest.result[k], closest.points[k]),
                        TrueDistance(closest.faces[i], closest.points[k]))

\* C5 witness: two proper faces, two query points with different answers, the
\* second face strictly nearer to the first point than the first face
ClosestSecondFaceChosen ==
    /\ closest.status = "done" /\ AllProper
    /\ Len(closest.faces) >= 2 /\ Len(closest.points) = 2
    /\ closest.result[1] = closest.faces[2]
    /\ closest.result[2] # closest.result[1]
    /\ RLt(TrueDistance(closest.faces[2], closest.points[1]),
           TrueDistance(closest.faces[1], closest.points[1]))

\* C6: a degenerate triangle (zero-length edge or zero-area face) is never
\* returned as the closest triangle unless every candidate face is degenerate.
DegenerateNeverSelected ==
    closest.status = "done" =>
        \A k \in 1..Len(closest.result) :
            ~NonDegenerate(closest.result[k]) =>
                \A i \in 1..Len(closest.faces) : ~NonDegenerate(closest.faces[i])

\* the signed distance of a rational point to the plane
RSignedDistance(q, plane) ==
    RDiv(RDot([i \in 1..3 |-> RSub(q[i], RInt(plane.point[i]))], RVec(plane.normal)),
         RInt(plane.len))

\* vertices i and j of a face lie strictly on opposite sides of the plane
Opposite(vertices, plane, i, j) ==
    RSign(SignedDistance(vertices[i], plane)) * RSign(SignedDistance(vertices[j], plane)) = -1

\* the point where the edge from vertex i to vertex j meets the plane, from
\* the two signed distances
Crossing(vertices, plane, i, j) ==
    LET di == SignedDistance(vertices[i], plane)
        dj == SignedDistance(vertices[j], plane)
        t == RDiv(di, RSub(di, dj))
    IN  <<RAdd(RInt(vertices[i][1]), RMul(t, RInt(vertices[j][1] - vertices[i][1]))),
          RAdd(RInt(vertices[i][2]), RMul(t, RInt(vertices[j][2] - vertices[i][2]))),
          RAdd(RInt(vertices[i][3]), RMul(t, RInt(vertices[j][3] - vertices[i][3])))>>

\* the edges (0,1), (1,2), (0,2) that cross the plane, in that order
CrossingEdges(vertices, plane) ==
    SelectSeq(<<<<1, 2>>, <<2, 3>>, <<1, 3>>>>,
              LAMBDA e : Opposite(vertices, plane, e[1], e[2]))

\* |dot(normal, b - a)| >= eps for the edge from vertex i to vertex j
LongEnough(vertices, plane, i, j) ==
    Abs(Dot(plane.normal, Sub(vertices[j], vertices[i]))) >= eps * plane.len

\* all three distances non-zero and not all of the same sign
MixedStrict(vertices, plane) ==
    /\ \A i \in 1..3 : SignedDistance(vertices[i], plane) # RZero
    /\ \E i, j \in 1..3 : Opposite(vertices, plane, i, j)

\* the pairs of segments that face k emitted
FacePairs(k) == {j \in 1..Len(section.owners) : section.owners[j] = k}

\* face k emitted exactly the segment of its first two crossing points
EmitsCrossingSegment(k) ==
    LET vertices == FaceVertices(section.mesh, k)
        ce == CrossingEdges(vertices, section.plane)
    IN  /\ Cardinality(FacePairs(k)) = 1
        /\ Len(ce) = 2
        /\ \A j \in FacePairs(k) :
              /\ section.segments[2 * j - 1]
                    = Crossing(vertices, section.plane, ce[1][1], ce[1][2])
              /\ section.segments[2 * j]
                    = Crossing(vertices, section.plane, ce[2][1], ce[2][2])

AllEdgesLongEnough(k) ==
    LET vertices == FaceVertices(section.mesh, k)
        ce == CrossingEdges(vertices, section.plane)
    IN  \A n \in 1..Len(ce) : LongEnough(vertices, section.plane, ce[n][1], ce[n][2])

\* C7 as stated: every face with three non-zero distances of mixed sign emits
\* exactly one segment, formed by the first two crossing points found when
\* the edges are tested in the order (0,1), (1,2), (0,2).
MixedFaceEmitsOneSegment ==
    section.status = "done" =>
        \A k \in 1..NumFaces(section.mesh) :
            MixedStrict(FaceVertices(section.mesh, k), section.plane) =>
                EmitsCrossingSegment(k)

\* C7 amended: such a face emits exactly that one segment when both of its
\* crossing edges have |dot(normal, b - a)| >= eps, and no segment at all when
\* one of them has |dot(normal, b - a)| < eps.
MixedFaceEmitsOneSegmentUnlessShort ==
    section.status = "done" =>
        \A k \in 1..NumFaces(section.mesh) :
            MixedStrict(FaceVertices(section.mesh, k), section.plane) =>
                IF AllEdgesLongEnough(k) THEN EmitsCrossingSegment(k)
                ELSE FacePairs(k) = {}

\* C7 witness: a mixed face whose crossings are on its edges (1,2) and (0,2)
\* emitted its segment
MixedFaceCrossed ==
    /\ section.status = "done"
    /\ \E k \in 1..NumFaces(section.mesh) :
          /\ MixedStrict(FaceVertices(section.mesh, k), section.plane)
          /\ CrossingEdges(FaceVertices(section.mesh, k), section.plane)
                = <<<<2, 3>>, <<1, 3>>>>
          /\ Cardinality(FacePairs(k)) = 1

\* a and b strictly on the same side of the plane
StrictlySameSide(a, b, plane) ==
    RSign(SignedDistance(a, plane)) * RSign(SignedDistance(b, plane)) = 1

IsPointOnPlane(result, plane) ==
    result # "None" /\ RSignedDistance(result, plane) = RZero

\* C8 as stated: None when a and b are strictly on the same side of the
\* plane; in every other case a point with signed distance zero.
SegmentResultOnPlane ==
    seg_call.status = "done" =>
        IF StrictlySameSide(seg_call.a, seg_call.b, seg_call.plane)
        THEN seg_call.result = "None"
        ELSE IsPointOnPlane(seg_call.result, seg_call.plane)

\* C8 amended: None when a and b are strictly on the same side of the plane
\* or when |dot(normal, b - a)| < eps; in every other case a point with signed
\* distance zero.
SegmentResultOnPlaneUnlessShort ==
    seg_call.status = "done" =>
        IF \/ StrictlySameSide(seg_call.a, seg_call.b, seg_call.plane)
           \/ Abs(Dot(seg_call.plane.normal, Sub(seg_call.b, seg_call.a)))
                 < eps * seg_call.plane.len
        THEN seg_call.result = "None"
        ELSE IsPointOnPlane(seg_call.result, seg_call.plane)

\* C8 witness: end points strictly on opposite sides, a crossing strictly
\* inside the segment was returned
SegmentCrossed ==
    /\ seg_call.status = "done"
    /\ RSign(SignedDistance(seg_call.a, seg_call.plane))
          * RSign(SignedDistance(seg_call.b, seg_call.plane)) = -1
    /\ seg_call.result # "None"
    /\ seg_call.result # RVec(seg_call.a) /\ seg_call.result # RVec(seg_call.b)

\* the rational point q lies on the edge from u to v
OnEdge(q, u, v) ==
    LET uv == RVec(Sub(v, u))
        uq == <<RSub(q[1], RInt(u[1])), RSub(q[2], RInt(u[2])), RSub(q[3], RInt(u[3]))>>
        cx == <<RSub(RMul(uq[2], uv[3]), RMul(uq[3], uv[2])),
                RSub(RMul(uq[3], uv[1]), RMul(uq[1], uv[3])),
                RSub(RMul(uq[1], uv[2]), RMul(uq[2], uv[1]))>>
    IN  /\ cx = <<RZero, RZero, RZero>>
        /\ RLe(RZero, RDot(uq, uv))
        /\ RLe(RDot(uq, uv), RDot(uv, uv))

OnFace(q, vertices) ==
    \/ OnEdge(q, vertices[1], vertices[2])
    \/ OnEdge(q, vertices[2], vertices[3])
    \/ OnEdge(q, vertices[1], vertices[3])

\* C10: the returned list has an even number of points; points 2k and 2k+1 are
\* the end points of one segment of a single face (both on that face and on
\* the plane), each face contributes at most one segment, and the segments
\* appear in increasing face order.
SegmentsArePairsInFaceOrder ==
    section.status = "done" =>
        /\ Len(section.segments) % 2 = 0
        /\ Len(section.segments) = 2 * Len(section.owners)
        /\ \A j \in 1..Len(section.owners) :
              /\ section.owners[j] \in 1..NumFaces(section.mesh)
              /\ j > 1 => section.owners[j - 1] < section.owners[j]
              /\ \A m \in {2 * j - 1, 2 * j} :
                    /\ OnFace(section.segments[m],
                              FaceVertices(section.mesh, section.owners[j]))
                    /\ RSignedDistance(section.segments[m], section.plane) = RZero

\* C10 witness: two faces emitted a segment each, one of them by crossings
SegmentsOfTwoFaces ==
    /\ section.status = "done"
    /\ Len(section.owners) = 2
    /\ Len(section.segments) = 4
    /\ MixedStrict(FaceVertices(section.mesh, 2), section.plane)

\* C11: for every curve and every x strictly below inputs[0], evaluate gives
\* outputs[0] exactly, and for every x strictly above inputs[-1] it gives
\* outputs[-1] exactly, whatever the fit would produce there.
FlatOutsideInputs ==
    curve.status = "ok" =>
        \A k \in 1..Len(curve_eval.out) :
            /\ RLt(curve_eval.xs[k], RInt(curve.inputs[1])) =>
                  curve_eval.out[k] = curve.outputs[1]
            /\ RLt(RInt(Last(curve.inputs)), curve_eval.xs[k]) =>
                  curve_eval.out[k] = Last(curve.outputs)

\* C11 witness: a fitted curve was evaluated below its first input, where the
\* clipped fit differs from outputs[0], and outputs[0] came back
FlatBelowFittedCurve ==
    /\ curve.status = "ok"
    /\ curve.f # "None"
    /\ \E k \in 1..Len(curve_eval.out) :
          /\ RLt(curve_eval.xs[k], RInt(curve.inputs[1]))
          /\ Clipped(curve, curve_eval.xs[k]) # curve.outputs[1]
          /\ curve_eval.out[k] = curve.outputs[1]

\* C12: a curve created with exactly one input point has no fit, and evaluate
\* returns outputs[0] clamped to [0, 1] for every x (below, at and above
\* inputs[0]).
OnePointCurveIsConstant ==
    (curve.status = "ok" /\ Len(curve.inputs) = 1) =>
        /\ curve.f = "None"
        /\ \A k \in 1..Len(curve_eval.out) :
              curve_eval.out[k] = Clip01(curve.outputs[1])

\* C13: render_target is the result of bin(max_dim) exactly when the byte
\* size of the grid is strictly greater than max_bytes; when it is less than
\* or equal to max_bytes, render_target is the very array that data is.
RenderTargetBinnedOnlyAboveLimit ==
    volume.status = "ok" =>
        IF NBytes(volume.data) > vol_args.max_bytes
        THEN /\ volume.render_target = Bin(volume.data, vol_args.max_dim)
             /\ volume.render_target.id # volume.data.id
        ELSE volume.render_target = volume.data

\* C13 witness: a grid above the limit was binned to a smaller array
RenderTargetWasBinned ==
    /\ volume.status = "ok"
    /\ NBytes(volume.data) > vol_args.max_bytes
    /\ volume.render_target.id = "binned"
    /\ volume.render_target.shape # volume.data.shape

\* the offset of a translation matrix
OffsetOf(matrix) == <<matrix[1][4], matrix[2][4], matrix[3][4]>>

\* a box with every corner moved by t
MovedBox(box, t) ==
    BoundingBox([i \in 1..3 |-> RAdd(box.max[i], t[i])],
                [i \in 1..3 |-> RAdd(box.min[i], t[i])])

\* C14: for every volume and every offset t, the bounding box after
\* translate(t) is the bounding box before the call with every corner moved
\* by t.
TranslateMovesBox ==
    [][VolumeTranslate =>
          volume'.bounding_box =
              MovedBox(volume.bounding_box, OffsetOf(Last(vol_calls')))]_vars

\* C14 witness: a volume that was rotated and then translated
TranslatedAfterRotation ==
    /\ volume.status = "ok"
    /\ Len(vol_calls) = 3
    /\ vol_calls[2] \in {RotMatrix(m) : m \in Rotations}
    /\ vol_calls[3] \in {FromTranslation(o) : o \in Offsets}
    /\ volume.bounding_box # BoxTransform(LocalBox(volume), vol_calls[1])

\* C15: rotate, translate and transform change only transform_matrix and
\* bounding_box: data, render_target, histogram, curve and voxel_size are the
\* same after any sequence of these calls as before it.
MutatorsKeepGridAndCurve ==
    [][(VolumeRotate \/ VolumeTranslate \/ VolumeTransform) =>
          /\ volume'.data = volume.data
          /\ volume'.render_target = volume.render_target
          /\ volume'.histogram = volume.histogram
          /\ volume'.curve = volume.curve
          /\ volume'.voxel_size = volume.voxel_size]_vars

\* C15 witness: a volume with a binned render target was moved twice
BinnedVolumeMovedTwice ==
    /\ volume.status = "ok"
    /\ Len(vol_calls) = 3
    /\ volume.transform_matrix # vol_calls[1]
    /\ volume.render_target.id = "binned"
    /\ volume.curve.status = "ok"

\* the distances of the faces of the call to its k-th point
DistRow(k) ==
    [i \in 1..Len(closest.faces) |-> Dist(closest.faces[i], closest.points[k])]

\* the faces whose distance is the minimum of a row (none when a distance is
\* not a number, as no minimum exists then)
MinimalFaces(row) ==
    {i \in 1..Len(row) :
        /\ \A j \in 1..Len(row) : ~IsNaN(row[j])
        /\ \A j \in 1..Len(row) : RLe(row[i], row[j])}

\* C16: when several faces have the same minimum distance to a query point,
\* closest_triangle_to_point returns the one with the lowest index in faces.
TieGoesToLowestIndex ==
    closest.status = "done" =>
        \A k \in 1..Len(closest.points) :
            LET M == MinimalFaces(DistRow(k))
            IN  Cardinality(M) > 1 =>
                    \E i \in M : /\ \A j \in M : i <= j
                                 /\ closest.result[k] = closest.faces[i]

\* C16 witness: two different faces at the same minimum distance from a
\* point, the first of them returned
TieBetweenDifferentFaces ==
    /\ closest.status = "done"
    /\ Len(closest.faces) >= 2
    /\ closest.faces[1] # closest.faces[2]
    /\ \E k \in 1..Len(closest.points) :
          /\ {1, 2} \subseteq MinimalFaces(DistRow(k))
          /\ closest.result[k] = closest.faces[1]

\* the vertices the faces of the mesh use
UsedVertices(mesh) == {mesh.vertices[mesh.indices[i]] : i \in 1..Len(mesh.indices)}

\* every vertex of every face strictly on the positive side, or every one
\* strictly on the negative side
MeshOnOneSide(mesh, plane) ==
    \/ \A v \in UsedVertices(mesh) : RLt(RZero, RSignedDistance(RVec(v), plane))
    \/ \A v \in UsedVertices(mesh) : RLt(RSignedDistance(RVec(v), plane), RZero)

\* C17: if every vertex of every face has a strictly positive signed distance
\* to the plane (or every one a strictly negative distance),
\* mesh_plane_intersection returns an empty list.
OneSidedMeshGivesNoSegments ==
    (section.status = "done" /\ MeshOnOneSide(section.mesh, section.plane)) =>
        section.segments = <<>>

\* C17 witness: a mesh of two different faces, all of it strictly on one side
\* of a plane that does not pass through the origin, was cut
OneSidedMeshCut ==
    /\ section.status = "done"
    /\ NumFaces(section.mesh) = 2
    /\ Cardinality(UsedVertices(section.mesh)) >= 3
    /\ section.plane.point # <<0, 0, 0>>
    /\ MeshOnOneSide(section.mesh, section.plane)
    /\ section.segments = <<>>

\* C18: after addObject(obj, title), called as the test calls it (object
\* first, title second, title optional), top() returns obj, and the call
\* emits stackChanged exactly once.
AddObjectPutsObjectOnTop ==
    (stack_call.op = "addObject" /\ stack_call.style = "test") =>
        /\ stack_call.raised = "no"
        /\ Top(stack.object_stack) = stack_call.args[1]
        /\ stack_call.emitted = 1

\* the highest position of the stack that holds the object, 0 if none does
TopmostOccurrence(object_stack, object) ==
    LET S == {i \in 1..Len(object_stack) : object_stack[i][2] = object}
    IN  IF S = {} THEN 0 ELSE CHOOSE i \in S : \A j \in S : j <= i

SetValueEmitsAssignDoesNot ==
    /\ json_call.op = "setValue" =>
          json.value = json_call.arg /\ json_call.been_set = <<json_call.arg>>
    /\ json_call.op = "json_value" =>
          json.value = json_call.arg /\ json_call.been_set = <<>>

\* C20 witness: setValue changed the value of a node connected to a parent,
\* which heard of it
SetValueChangedValue ==
    /\ json_call.op = "setValue"
    /\ json_call.before # json_call.arg
    /\ json.value = json_call.arg
    /\ json.connections = 1
    /\ json_call.parent_been_set = <<json_call.arg>>

\* Reference: the orthogonal projection of p onto the plane of the triangle
\* a b c lies strictly inside the triangle (all three barycentric coordinates
\* of the projection are positive)
ProjectsStrictlyInside(p, a, b, c) ==
    LET ab == Sub(b, a)
        ac == Sub(c, a)
        ap == Sub(p, a)
        denom == Dot(ab, ab) * Dot(ac, ac) - Dot(ab, ac) * Dot(ab, ac)
        v == Dot(ac, ac) * Dot(ab, ap) - Dot(ab, ac) * Dot(ac, ap)
        w == Dot(ab, ab) * Dot(ac, ap) - Dot(ab, ac) * Dot(ab, ap)
    IN  denom > 0 /\ v > 0 /\ w > 0 /\ v + w < denom

\* Reference: the squared distance from p to the plane of the triangle a b c
SquaredPlaneDistance(p, a, b, c) ==
    LET n == Cross(Sub(b, a), Sub(c, a))
    IN  Rat(Dot(n, Sub(p, a)) * Dot(n, Sub(p, a)), Dot(n, n))

\* Reference: the squared distance from p to the segment a b
SquaredSegmentDistance(p, a, b) ==
    LET ab == Sub(b, a)
        t == Clip01(Rat(Dot(ab, Sub(p, a)), Dot(ab, ab)))
        diff == [i \in 1..3 |-> RSub(RInt(p[i]), RAdd(RInt(a[i]), RMul(t, RInt(ab[i]))))]
    IN  RDot(diff, diff)

\* C23: for a query point whose orthogonal projection onto a non-degenerate
\* triangle's plane lies strictly inside the triangle, the squared distance
\* computed for that triangle is the squared point-to-plane distance
\* (nor . p1)^2 / (nor . nor), not the minimum of the three edge distances
\* (which is strictly larger).
InteriorPointUsesPlaneDistance ==
    closest.status = "done" =>
        \A k \in 1..Len(closest.points) : \A i \in 1..Len(closest.faces) :
            LET f == closest.faces[i]
                p == closest.points[k]
            IN  (NonDegenerate(f) /\ ProjectsStrictlyInside(p, f[1], f[2], f[3])) =>
                    /\ closest.dist[k][i] = SquaredPlaneDistance(p, f[1], f[2], f[3])
                    /\ RLt(closest.dist[k][i], SquaredSegmentDistance(p, f[1], f[2]))
                    /\ RLt(closest.dist[k][i], SquaredSegmentDistance(p, f[2], f[3]))
                    /\ RLt(closest.dist[k][i], SquaredSegmentDistance(p, f[3], f[1]))

\* C23 witness: a point off the plane of a tilted face, above its interior,
\* got a non-zero plane distance
InteriorPointAboveTiltedFace ==
    /\ closest.status = "done"
    /\ \E k \in 1..Len(closest.points) : \E i \in 1..Len(closest.faces) :
          LET f == closest.faces[i]
              p == closest.points[k]
          IN  /\ ProjectsStrictlyInside(p, f[1], f[2], f[3])
              /\ Dot(Nor(f), Nor(f)) > 256
              /\ closest.dist[k][i] # RZero
              /\ closest.dist[k][i] = SquaredPlaneDistance(p, f[1], f[2], f[3])

\* the positions (1..3) of the vertices of a face that lie on the plane
OnPlanePositions(vertices, plane) ==
    {i \in 1..3 : RSignedDistance(RVec(vertices[i]), plane) = RZero}

\* the lowest and the highest member of a set of positions
Lowest(S) == CHOOSE i \in S : \A j \in S : i <= j
Highest(S) == CHOOSE i \in S : \A j \in S : j <= i

\* C24: a face with exactly one non-zero signed distance (two vertices on the
\* plane) emits exactly one segment, the two on-plane vertices in increasing
\* vertex order, and segment_plane_intersection is not called for it.
EdgeOnPlaneEmittedDirectly ==
    section.status = "done" =>
        \A k \in 1..NumFaces(section.mesh) :
            LET vertices == FaceVertices(section.mesh, k)
                Z == OnPlanePositions(vertices, section.plane)
            IN  Cardinality(Z) = 2 =>
                    /\ Cardinality(FacePairs(k)) = 1
                    /\ \A j \in FacePairs(k) :
                          /\ section.segments[2 * j - 1] = RVec(vertices[Lowest(Z)])
                          /\ section.segments[2 * j] = RVec(vertices[Highest(Z)])
                    /\ section.tests[k] = 0

\* C24 witness: the second face of a mesh has its second and third vertices
\* on the plane and emitted them
EdgeOnPlaneFace ==
    /\ section.status = "done"
    /\ NumFaces(section.mesh) = 2
    /\ OnPlanePositions(FaceVertices(section.mesh, 2), section.plane) = {2, 3}
    /\ 2 \in {section.owners[j] : j \in 1..Len(section.owners)}
    /\ section.tests[2] = 0

\* C25: a face with exactly one vertex on the plane emits a segment if and
\* only if the edge joining its two off-plane vertices yields a crossing point
\* (end points strictly on opposite sides, |dot(normal, b - a)| >= eps); the
\* segment is then (on-plane vertex, crossing point); a face that touches the
\* plane at one vertex with the other two on one side emits nothing.
VertexOnPlaneFaceEmitsToCrossing ==
    section.status = "done" =>
        \A k \in 1..NumFaces(section.mesh) :
            LET vertices == FaceVertices(section.mesh, k)
                Z == OnPlanePositions(vertices, section.plane)
                N == (1..3) \ Z
            IN  Cardinality(Z) = 1 =>
                    IF /\ Opposite(vertices, section.plane, Lowest(N), Highest(N))
                       /\ LongEnough(vertices, section.plane, Lowest(N), Highest(N))
                    THEN /\ Cardinality(FacePairs(k)) = 1
                         /\ \A j \in FacePairs(k) :
                               /\ section.segments[2 * j - 1] = RVec(vertices[Lowest(Z)])
                               /\ section.segments[2 * j]
                                     = Crossing(vertices, section.plane,
                                                Lowest(N), Highest(N))
                    ELSE FacePairs(k) = {}

\* C25 witness: a face whose last vertex is on the plane and whose other two
\* are on opposite sides emitted (vertex, crossing point)
VertexOnPlaneFaceCrossed ==
    /\ section.status = "done"
    /\ \E k \in 1..NumFaces(section.mesh) :
          LET vertices == FaceVertices(section.mesh, k)
          IN  /\ OnPlanePositions(vertices, section.plane) = {3}
              /\ Opposite(vertices, section.plane, 1, 2)
              /\ \E j \in FacePairs(k) :
                    /\ section.segments[2 * j - 1] = RVec(vertices[3])
                    /\ section.segments[2 * j] # RVec(vertices[3])

\* C21: deleteObject deletes the currently selected object; when it is the
\* last remaining object of the list, that object is replaced by a default
\* copy, so the list then holds exactly one object with default values.
DeleteReplacesLastByDefault ==
    olist_call.op = "deleteObject" =>
        IF Len(olist_call.before) > 1
        THEN olist.value = Pop(olist_call.before, olist_call.before_index)
        ELSE Len(olist.value) = 1 /\ olist.value[1].data = "default"

\* C26: assigning a list L of n >= 1 object dictionaries to json_value and
\* then reading json_value gives back L: the list holds exactly n objects and
\* its i-th object carries the data of L[i] for every i, i = 0 included.
AssignedJsonReadsBack ==
    (olist_call.op = "json_value" /\ Len(olist_call.arg) >= 1) =>
        /\ Len(olist.value) = Len(olist_call.arg)
        /\ \A i \in 1..Len(olist.value) : olist.value[i].data = olist_call.arg[i]
        /\ GetJsonValue(olist) = olist_call.arg

\* the objects of a list, as a set
ObjectsOf(value) == {value[k] : k \in 1..Len(value)}

\* C27: after any sequence of newObject, deleteObject, moveObject,
\* comboboxNewSelected (with a valid index) and json_value assignments, the
\* list holds at least one object and 0 <= current_index < len(value);
\* moveObject keeps the same set of objects and keeps the moved object
\* selected.
ListIndexStaysValid ==
    olist.status = "ok" =>
        /\ Len(olist.value) >= 1
        /\ 0 <= olist.current_index
        /\ olist.current_index < Len(olist.value)
        /\ olist_call.op = "moveObject" =>
              /\ Len(olist.value) = Len(olist_call.before)
              /\ ObjectsOf(olist.value) = ObjectsOf(olist_call.before)
              /\ olist.value[olist.current_index + 1]
                    = olist_call.before[olist_call.before_index + 1]

\* C27 witness: the first of three objects was moved one place up the list
\* and is still the selected one
MovedFirstOfThree ==
    /\ olist_call.op = "moveObject"
    /\ Len(olist_call.before) = 3
    /\ olist_call.before_index = 0
    /\ olist.current_index = 1
    /\ olist.value # olist_call.before
    /\ olist.value[2] = olist_call.before[1]

\* C22: ChangeMainSample.redo makes the chosen key the first key of the
\* sample dictionary and keeps the other keys in their relative order; undo
\* restores the dictionary as it was when the command was created; after
\* mergeWith, redo gives the order the later commands produced and undo the
\* order before the first command.
MakeFirst(order, key) == <<key>> \o SelectSeq(order, LAMBDA k : k # key)

RECURSIVE AfterChoices(_, _)
AfterChoices(order, chosen) ==
    IF chosen = <<>> THEN order
    ELSE AfterChoices(MakeFirst(order, Head(chosen)), Tail(chosen))

MainSampleFollowsCommand ==
    /\ sample_cmd.status = "done" =>
          /\ Keys(sample) =
                AfterChoices(Keys(sample_cmd.created), sample_cmd.chosen)
          /\ Elements(sample) = Elements(sample_cmd.created)
    /\ sample_cmd.status = "undone" => sample = sample_cmd.created

MergedMainSampleRedone ==
    /\ sample_cmd.status = "done"
    /\ sample_cmd.last = "redo"
    /\ Len(sample_cmd.chosen) = 3
    /\ sample_cmd.chosen[1] # sample_cmd.chosen[2]
    /\ sample_cmd.chosen[2] # sample_cmd.chosen[3]
    /\ Keys(sample)[1] = sample_cmd.chosen[3]
    /\ Keys(sample) # Keys(sample_cmd.created)

\* C28: DeleteFiducials.redo followed by undo restores the fiducial array to
\* its previous contents and order, for every non-empty list of distinct
\* valid indices, and undo never inserts beyond the end of the array.
DeleteUndoRestoresArray ==
    /\ del_cmd.status # "IndexError"
    /\ del_cmd.status = "undone" =>
          /\ fiducials = del_cmd.before
          /\ Len(del_cmd.inserts) = Len(del_cmd.indices)
          /\ \A i \in 1..Len(del_cmd.inserts) :
                del_cmd.inserts[i][1] <= del_cmd.inserts[i][2]

DeletedEveryFiducialUndone ==
    /\ del_cmd.status = "undone"
    /\ Len(del_cmd.before) >= 3
    /\ Len(del_cmd.indices) = Len(del_cmd.before)
    /\ fiducials = del_cmd.before

\* C29: MoveFiducials.redo exchanges the fiducials at move_from and move_to
\* and leaves the others in place, undo restores the previous order; after
\* merges, undo restores the order before the first move and redo applies
\* all the merged moves again.
RECURSIVE AfterMoves(_, _)
AfterMoves(array, moves) ==
    IF moves = <<>> THEN array
    ELSE LET a == Head(moves)[1] + 1
             b == Head(moves)[2] + 1
         IN  AfterMoves([array EXCEPT ![a] = array[b], ![b] = array[a]],
                        Tail(moves))

MoveCommandsCompose ==
    /\ move_cmd.status = "done" =>
          fiducials = AfterMoves(move_cmd.before, move_cmd.moves)
    /\ move_cmd.status = "undone" => fiducials = move_cmd.before

MergedMovesRedone ==
    /\ move_cmd.status = "done"
    /\ move_cmd.last = "redo"
    /\ move_cmd.moves = <<<<0, 1>>, <<1, 2>>, <<0, 1>>>>
    /\ fiducials # move_cmd.before

\* C30: for a control A configured with A.compareWith(B, op), after any
\* text changes to A and to B, A.valid is true exactly when A's current
\* text passes the required, number / range and comparison checks against
\* B's current text.
ComparedValidityIsCurrent ==
    forms # <<>> =>
       (forms["A"].compare_with = "B" =>
           forms["A"].valid = Validate(forms, "A", forms["A"].text))

===========================================================================
